---- MODULE Spec2Model ----
(***************************************************************************)
(* Model of the curation-efficiency pipeline of the Steem Curation         *)
(* Extension: the per-key post cache (votes.js, attachVoterHoverTooltips), *)
(* the aggregator run (VoterTip.prefetchEfficiencyData) and the chart      *)
(* (votes.js, EfficiencyScatter).                                          *)
(*                                                                         *)
(* JavaScript numbers are modelled as exact rationals plus NaN, -Infinity  *)
(* and undefined; non-numeric strings are a value of their own that        *)
(* Number() turns into NaN.                                                *)
(***************************************************************************)
EXTENDS Integers, Sequences, FiniteSets, TLC

(***************************************************************************)
(* JavaScript values                                                       *)
(***************************************************************************)
RECURSIVE GCD(_, _)
GCD(a, b) == IF b = 0 THEN a ELSE GCD(b, a % b)

Abs(x) == IF x < 0 THEN -x ELSE x

\* the finite number n/d, in lowest terms with a positive denominator
Fin(n, d) ==
    LET s == IF d < 0 THEN -1 ELSE 1
        g == GCD(Abs(n), Abs(d))
    IN [k |-> "fin", n |-> (s * n) \div g, d |-> (s * d) \div g]

Int2Num(i) == [k |-> "fin", n |-> i, d |-> 1]
NaN == [k |-> "nan", n |-> 0, d |-> 1]
NegInf == [k |-> "ninf", n |-> 0, d |-> 1]
Undefined == [k |-> "undef", n |-> 0, d |-> 1]
\* a string that is not the text of a number ("abc")
NonNumeric == [k |-> "str", n |-> 0, d |-> 1]

\* Number.isFinite(v): false for NaN, the infinities and every non-number
IsFinite(v) == v.k = "fin"

\* Number(v): the numeric value of a number, NaN for a non-numeric string or undefined
ToNumber(v) == IF v.k \in {"fin", "ninf"} THEN v ELSE NaN

\* !v is false (v is truthy): a non-zero number or a non-empty string
Truthy(v) ==
    \/ v.k = "fin" /\ v.n # 0
    \/ v.k = "str"
    \/ v.k = "ninf"

\* a ?? b
Nullish(a, b) == IF a.k = "undef" THEN b ELSE a

\* a * b and a / b on numbers (b # 0 wherever the code divides)
Mul(a, b) ==
    LET x == ToNumber(a)
        y == ToNumber(b)
    IN IF x.k = "fin" /\ y.k = "fin" THEN Fin(x.n * y.n, x.d * y.d) ELSE NaN

Div(a, b) ==
    LET x == ToNumber(a)
        y == ToNumber(b)
    IN IF x.k = "fin" /\ y.k = "fin" /\ y.n # 0 THEN Fin(x.n * y.d, x.d * y.n) ELSE NaN

Add(a, b) ==
    LET x == ToNumber(a)
        y == ToNumber(b)
    IN IF x.k = "fin" /\ y.k = "fin" THEN Fin(x.n * y.d + y.n * x.d, x.d * y.d) ELSE NaN

\* a < b and a <= b: false as soon as one side is NaN
Lt(a, b) ==
    LET x == ToNumber(a)
        y == ToNumber(b)
    IN \/ x.k = "fin" /\ y.k = "fin" /\ x.n * y.d < y.n * x.d
       \/ x.k = "ninf" /\ y.k = "fin"

Leq(a, b) ==
    LET x == ToNumber(a)
        y == ToNumber(b)
    IN \/ x.k = "fin" /\ y.k = "fin" /\ x.n * y.d <= y.n * x.d
       \/ x.k = "ninf" /\ y.k \in {"fin", "ninf"}

\* floor of the rational n/d, d > 0 (\div rounds toward minus infinity)
FloorQ(n, d) == n \div d

\* Math.round(v): the nearest integer, halves toward plus infinity
MathRound(v) ==
    LET x == ToNumber(v)
    IN IF x.k = "fin" THEN Int2Num(FloorQ(2 * x.n + x.d, 2 * x.d)) ELSE NaN

\* Math.ceil(v)
MathCeil(v) ==
    LET x == ToNumber(v)
    IN IF x.k = "fin" THEN Int2Num(-FloorQ(-x.n, x.d)) ELSE x

\* Number(v.toFixed(2)): v rounded to two decimals, NaN staying NaN
ToFixed2(v) ==
    LET x == ToNumber(v)
    IN IF x.k = "fin"
       THEN IF x.n >= 0
            THEN Fin(FloorQ(2 * 100 * x.n + x.d, 2 * x.d), 100)
            ELSE Fin(-FloorQ(2 * 100 * (-x.n) + x.d, 2 * x.d), 100)
       ELSE NaN

(***************************************************************************)
(* The data the model draws its inputs from                                *)
(***************************************************************************)
Tips == {1, 2}
Authors == {"alice", "bob"}
Permlinks == {"p1", "p2"}
\* this.post.author of the post the tips belong to
PostAuthor == "alice"

\* the largest table the source returns, and the number of getPostCached
\* calls the callers of the bare cache make
MaxRows == 2
MaxCalls == 3

VARIABLES
    postCache,          \* votes.js:7   Map key -> promise (0: no entry)
    promises,           \* the promises getPostCached has created, by identity
    calls,              \* history: every getPostCached call and what it returned
    tips,               \* the tips handed to getTipEfficiency
    cur,                \* getTipEfficiency: position in tips of the awaited run
    tipEfficiency,      \* getTipEfficiency's own promise
    vote,               \* VoterTip.vote
    source,             \* the table the reward source holds for the tip's voter
    pc,                 \* where each tip's prefetchEfficiencyData stands
    rows,               \* res.rows of the run
    idx,                \* position of the for-of loop in rows
    attempt,            \* i of the retry loop
    awaiting,           \* the promise the run awaits
    histPost,           \* histPost of the current event
    efficiencyData,     \* VoterTip.efficiencyData
    totalCurationRew,   \* VoterTip.totalCurationRew
    contributedValue,   \* VoterTip.contributedValue
    totAuthor,          \* VoterTip.totAuthor
    metrics,            \* the counters updateMetrics has rendered
    scatter,            \* VoterTip.scatter, the EfficiencyScatter
    fetched,            \* history: how the run's window fetch ended
    attemptLog,         \* history: outcome of each attempt of the current event
    evlog,              \* history: what became of each event of the table
    chartLog,           \* history: the calls made on the chart and what they left
    request,            \* history: the request each run made to the reward source
    currentLi,          \* votes.js:56 the row the pointer is taken to be on (0: null)
    tipVisible,         \* which tips' tooltips carry the class 'visible'
    hoverLog            \* history: the show() and hide() calls of the hover handlers

cacheVars == <<postCache, promises, calls>>
driverVars == <<tips, cur, tipEfficiency>>
tipVars == <<vote, source, pc, rows, idx, attempt, awaiting, histPost,
             efficiencyData, totalCurationRew, contributedValue, totAuthor,
             metrics, scatter, fetched, attemptLog, evlog, chartLog, request>>
vars == <<postCache, promises, calls, tips, cur, tipEfficiency, vote, source,
          pc, rows, idx, attempt, awaiting, histPost, efficiencyData,
          totalCurationRew, contributedValue, totAuthor, metrics, scatter,
          fetched, attemptLog, evlog, chartLog, request,
          currentLi, tipVisible, hoverLog>>
hoverVars == <<currentLi, tipVisible, hoverLog>>

(***************************************************************************)
(* Post cache: votes.js, attachVoterHoverTooltips, lines 7-23              *)
(***************************************************************************)
\* `${a}/${p}`: authors and permlinks hold no "/", so the pair is the key
keyFor(a, p) == <<a, p>>
Keys == {keyFor(a, p) : a \in Authors, p \in Permlinks}

NoPost == [author |-> "", permlink |-> "", total_vests |-> Undefined,
           totalVests |-> Undefined, total_rshares |-> Undefined,
           totalRshares |-> Undefined, total_payout_value |-> Undefined]
NoError == [message |-> <<>>, status |-> 0, code |-> 0]

\* the promise of the async function of lines 13-20, which has run up to its
\* first await: p.fetchDetails() is started
NewPromise(author, permlink, time) ==
    [key |-> keyFor(author, permlink), author |-> author, permlink |-> permlink,
     time |-> time, stage |-> "fetchDetails", state |-> "pending",
     value |-> NoPost, err |-> NoError]

\* a cache that looks the key up without the has() test: every call builds anew
getPostCached_NoDedup(author, permlink, time) ==
    LET key == keyFor(author, permlink)
        id == Len(promises) + 1
    IN [cache |-> [postCache EXCEPT ![key] = id],
        promises |-> Append(promises, NewPromise(author, permlink, time)),
        ret |-> id]

\* a cache that drops a rejected entry and builds anew
getPostCached_Evict(author, permlink, time) ==
    LET key == keyFor(author, permlink)
        id == Len(promises) + 1
    IN IF postCache[key] = 0 \/ promises[postCache[key]].state = "rejected"
       THEN [cache |-> [postCache EXCEPT ![key] = id],
             promises |-> Append(promises, NewPromise(author, permlink, time)),
             ret |-> id]
       ELSE [cache |-> postCache, promises |-> promises, ret |-> postCache[key]]

\* getPostCached(author, permlink, time): the cache and the promises after
\* the call, and the promise returned
getPostCached(author, permlink, time) ==
    LET key == keyFor(author, permlink)
        id == Len(promises) + 1
    IN IF postCache[key] = 0
       THEN [cache |-> [postCache EXCEPT ![key] = id],
             promises |-> Append(promises, NewPromise(author, permlink, time)),
             ret |-> id]
       ELSE [cache |-> postCache, promises |-> promises, ret |-> postCache[key]]

(***************************************************************************)
(* The remote sources: what Post's fetches and the reward source can give  *)
(***************************************************************************)
\* the details a resolved Post can carry (total_vests or its alias
\* totalVests, total_rshares or totalRshares, total_payout_value)
Details ==
    { [total_vests |-> Int2Num(100), totalVests |-> Undefined,
       total_rshares |-> Int2Num(1000), totalRshares |-> Undefined,
       total_payout_value |-> Int2Num(50)],
      [total_vests |-> Undefined, totalVests |-> Int2Num(40),
       total_rshares |-> Undefined, totalRshares |-> Int2Num(300),
       total_payout_value |-> Fin(6173, 500)],
      [total_vests |-> NonNumeric, totalVests |-> Undefined,
       total_rshares |-> Int2Num(1000), totalRshares |-> Undefined,
       total_payout_value |-> Int2Num(50)],
      [total_vests |-> Int2Num(0), totalVests |-> Int2Num(40),
       total_rshares |-> Int2Num(1000), totalRshares |-> Undefined,
       total_payout_value |-> Int2Num(50)] }

\* new Post(author, permlink) after fetchDetails, getVoteData, getTotalVests
PostOf(author, permlink, d) ==
    [author |-> author, permlink |-> permlink,
     total_vests |-> d.total_vests, totalVests |-> d.totalVests,
     total_rshares |-> d.total_rshares, totalRshares |-> d.totalRshares,
     total_payout_value |-> d.total_payout_value]

\* what a fetch can throw: three shapes of a 503 and another failure
Errors ==
    { [message |-> <<"HTTP", "error", "503">>, status |-> 0, code |-> 0],
      [message |-> <<>>, status |-> 503, code |-> 0],
      [message |-> <<>>, status |-> 0, code |-> 503],
      [message |-> <<"HTTP", "error", "404">>, status |-> 404, code |-> 0] }

\* the votes a tip can stand for: vote.rshares, vote.percent
Votes ==
    { [rshares |-> Int2Num(100000000), percent |-> Int2Num(10000)],
      [rshares |-> Int2Num(3000000), percent |-> Int2Num(2500)],
      [rshares |-> Int2Num(50000000), percent |-> NonNumeric],
      [rshares |-> Int2Num(-2000000), percent |-> Int2Num(-10000)] }

\* the rows of a reward table: reward[tIdx], reward[aIdx], reward[pIdx], reward[vIdx]
Rows ==
    { [time |-> Int2Num(400000), author |-> "alice", permlink |-> "p1", vests |-> Int2Num(5)],
      [time |-> Int2Num(1000), author |-> "bob", permlink |-> "p1", vests |-> Int2Num(7)],
      [time |-> Int2Num(0), author |-> "bob", permlink |-> "p2", vests |-> Int2Num(5)],
      [time |-> NonNumeric, author |-> "alice", permlink |-> "p1", vests |-> Int2Num(5)],
      [time |-> Int2Num(500000), author |-> "bob", permlink |-> "p1", vests |-> NonNumeric] }

\* the tables of at most MaxRows rows, in any order, rows repeating
Tables == UNION {[1..n -> Rows] : n \in 0..MaxRows}

\* the awaits of lines 15-17 pass one by one
BuildAdvance ==
    \E id \in 1..Len(promises) :
    /\ promises[id].state = "pending"
    /\ promises[id].stage \in {"fetchDetails", "getVoteData"}
    /\ promises' = [promises EXCEPT ![id].stage =
                        IF @ = "fetchDetails" THEN "getVoteData" ELSE "getTotalVests"]
    /\ UNCHANGED <<hoverVars, postCache, calls, driverVars, tipVars>>

\* line 19: getTotalVests(time) is through, the async function returns p
BuildResolve ==
    \E id \in 1..Len(promises), d \in Details :
    /\ promises[id].state = "pending"
    /\ promises[id].stage = "getTotalVests"
    /\ promises' = [promises EXCEPT
                        ![id].stage = "done",
                        ![id].state = "fulfilled",
                        ![id].value = PostOf(promises[id].author, promises[id].permlink, d)]
    /\ UNCHANGED <<hoverVars, postCache, calls, driverVars, tipVars>>

\* one of the awaited fetches throws: the async function's promise rejects
BuildThrow ==
    \E id \in 1..Len(promises), e \in Errors :
    /\ promises[id].state = "pending"
    /\ promises' = [promises EXCEPT ![id].state = "rejected", ![id].err = e]
    /\ UNCHANGED <<hoverVars, postCache, calls, driverVars, tipVars>>

\* any holder of the cache calls getPostCached(author, permlink, time)
CallState(key) ==
    IF postCache[key] = 0 THEN "absent" ELSE promises[postCache[key]].state

LogCall(author, permlink, time, r) ==
    Append(calls, [key |-> keyFor(author, permlink), time |-> time,
                   ret |-> r.ret, found |-> CallState(keyFor(author, permlink))])

CacheCall(author, permlink, time) ==
    /\ Len(calls) < MaxCalls
    /\ LET r == getPostCached(author, permlink, time)
       IN /\ postCache' = r.cache
          /\ promises' = r.promises
          /\ calls' = LogCall(author, permlink, time, r)
    /\ UNCHANGED <<hoverVars, driverVars, tipVars>>

(***************************************************************************)
(* EfficiencyScatter: votes.js, lines 590-1002                             *)
(***************************************************************************)
\* post.details.created of the post the tips belong to, in ms
Created == 1000 * 1000 * 1000
\* days = 7 of attachVoterHoverTooltips
Days == 7
DayMs == 24 * 60 * 60 * 1000

\* Math.max(a, b): NaN as soon as one side is NaN
MaxNum(a, b) ==
    LET x == ToNumber(a)
        y == ToNumber(b)
    IN IF x.k = "nan" \/ y.k = "nan" THEN NaN
       ELSE IF Lt(x, y) THEN y ELSE x

\* the dataset createChart gives the chart, lines 649-671: it has no _id; its
\* data is the field data of the chart below
ScatterDataset == [id |-> "", y |-> Undefined, minX |-> Undefined, maxX |-> Undefined]

\* the constructor, lines 606-619, and the datasets and scales createChart
\* sets up: data is chart.data.datasets[0].data, datasets is
\* chart.data.datasets, xMin, xMax and yMax are the bounds of the scales
NewScatter ==
    [showWeighted |-> FALSE,
     minPointTs |-> NegInf,
     finalized |-> FALSE,
     rawPoints |-> <<>>,
     data |-> <<>>,
     datasets |-> <<ScatterDataset>>,
     yBaselineMin |-> Int2Num(0),
     xMin |-> Int2Num(Created - (Days + 1) * DayMs),
     xMax |-> Int2Num(Created - (Created % DayMs)),
     yMax |-> Undefined]

\* a y taken from the efficiency whatever the mode shown
ProjectY_AlwaysRaw(weighted, p) == MathRound(p.efficiency)

\* the y a point is drawn at in the mode shown
ProjectY(weighted, p) == MathRound(IF weighted THEN p.weightedEff ELSE p.efficiency)

Rendered(weighted, p) ==
    [x |-> p.tsMs, y |-> ProjectY(weighted, p), efficiency |-> p.efficiency,
     weightedEff |-> p.weightedEff, voterRewardValue |-> p.voterRewardValue,
     totalValue |-> p.totalValue, sameAuthor |-> p.sameAuthor]

\* pushPoint whose first point sets the x-axis minimum wherever it lies
pushPoint_FirstSetsXMin(s, point) ==
    IF ~IsFinite(point.tsMs) \/ ~IsFinite(point.efficiency)
    THEN s
    ELSE LET y == ProjectY(s.showWeighted, point)
             candidateMax == MathCeil(Add(y, Int2Num(5)))
             below == s.rawPoints = <<>> \/ Lt(point.tsMs, s.minPointTs)
         IN [s EXCEPT
               !.rawPoints = Append(@, point),
               !.data = Append(@, Rendered(s.showWeighted, point)),
               !.minPointTs = IF below THEN point.tsMs ELSE @,
               !.xMin = IF below THEN Add(point.tsMs, Int2Num(-5)) ELSE @,
               !.yMax = IF ~Truthy(s.yMax) \/ Lt(s.yMax, candidateMax)
                        THEN candidateMax ELSE @]

\* pushPoint that puts a point older than the first stored one in front
pushPoint_ByTime(s, point) ==
    IF ~IsFinite(point.tsMs) \/ ~IsFinite(point.efficiency)
    THEN s
    ELSE LET y == ProjectY(s.showWeighted, point)
             candidateMax == MathCeil(Add(y, Int2Num(5)))
             older == s.rawPoints # <<>> /\ Lt(point.tsMs, Head(s.rawPoints).tsMs)
         IN [s EXCEPT
               !.rawPoints = IF older THEN <<point>> \o @ ELSE Append(@, point),
               !.data = IF older THEN <<Rendered(s.showWeighted, point)>> \o @
                        ELSE Append(@, Rendered(s.showWeighted, point)),
               !.yMax = IF ~Truthy(s.yMax) \/ Lt(s.yMax, candidateMax)
                        THEN candidateMax ELSE @]

\* pushPoint(point), lines 761-817, with pad = 5
pushPoint(s, point) ==
    IF ~IsFinite(point.tsMs) \/ ~IsFinite(point.efficiency)
    THEN s
    ELSE LET y == ProjectY(s.showWeighted, point)
             candidateMax == MathCeil(Add(y, Int2Num(5)))
             below == Lt(point.tsMs, s.minPointTs)
         IN [s EXCEPT
               !.rawPoints = Append(@, point),
               !.data = Append(@, Rendered(s.showWeighted, point)),
               !.minPointTs = IF below THEN point.tsMs ELSE @,
               !.xMin = IF below THEN Add(point.tsMs, Int2Num(-5)) ELSE @,
               !.yMax = IF ~Truthy(s.yMax) \/ Lt(s.yMax, candidateMax)
                        THEN candidateMax ELSE @]

\* finalize that leaves the flag as it is
finalize_Never(s) == s

\* finalize(), lines 874-877
finalize(s) == [s EXCEPT !.finalized = TRUE]

\* _yValues(), lines 908-911: the finite y of the rendered points, in order
RECURSIVE FiniteYs(_)
FiniteYs(data) ==
    IF data = <<>> THEN <<>>
    ELSE LET rest == FiniteYs(Tail(data))
         IN IF IsFinite(Head(data).y) THEN <<Head(data).y>> \o rest ELSE rest

_yValues(s) == FiniteYs(s.data)

\* sort((a, b) => a - b)
RECURSIVE InsertSorted(_, _)
InsertSorted(x, sorted) ==
    IF sorted = <<>> THEN <<x>>
    ELSE IF Leq(x, Head(sorted)) THEN <<x>> \o sorted
         ELSE <<Head(sorted)>> \o InsertSorted(x, Tail(sorted))

\* a sort that leaves the values in the order of the points
SortNums_Unsorted(ys) == ys

RECURSIVE SortNums(_)
SortNums(ys) == IF ys = <<>> THEN <<>> ELSE InsertSorted(Head(ys), SortNums(Tail(ys)))

RECURSIVE SumNums(_)
SumNums(ys) == IF ys = <<>> THEN Int2Num(0) ELSE Add(Head(ys), SumNums(Tail(ys)))

\* _stats(), lines 958-967; null is written Undefined
_stats(s) ==
    LET ys == SortNums(_yValues(s))
        n == Len(ys)
        mid == n \div 2
    IN IF n = 0 THEN [mean |-> Undefined, median |-> Undefined]
       ELSE [mean |-> Div(SumNums(ys), Int2Num(n)),
             median |-> IF n % 2 = 1 THEN ys[mid + 1]
                        ELSE Div(Add(ys[mid], ys[mid + 1]), Int2Num(2))]

\* _upsertLineDataset that pushes a new line whether or not one is there
_upsertLineDataset_AlwaysPush(s, id, y) ==
    IF ~IsFinite(y) THEN s
    ELSE [s EXCEPT !.datasets =
             Append(@, [id |-> id, y |-> y, minX |-> s.xMin, maxX |-> s.xMax])]

\* _upsertLineDataset(id, y, ...), lines 969-1002
_upsertLineDataset(s, id, y) ==
    IF ~IsFinite(y) THEN s
    ELSE LET line == [id |-> id, y |-> y, minX |-> s.xMin, maxX |-> s.xMax]
             hits == {i \in 1..Len(s.datasets) : s.datasets[i].id = id}
         IN IF hits # {}
            THEN LET ix == CHOOSE i \in hits : \A j \in hits : i <= j
                 IN [s EXCEPT !.datasets[ix] = line]
            ELSE [s EXCEPT !.datasets = Append(@, line)]

\* addStatsLines(), lines 846-871
addStatsLines(s) ==
    IF ~s.finalized THEN s
    ELSE LET st == _stats(s)
             s1 == IF Truthy(st.mean)
                   THEN _upsertLineDataset(s, "mean-line", st.mean) ELSE s
             s2 == IF Truthy(st.median)
                   THEN _upsertLineDataset(s1, "median-line", st.median) ELSE s1
             yMax == MaxNum(MaxNum(Nullish(s.yMax, NegInf), Nullish(st.mean, NegInf)),
                            Nullish(st.median, NegInf))
         IN IF IsFinite(yMax)
            THEN [s2 EXCEPT !.yMax = MathCeil(Add(yMax, Int2Num(5)))]
            ELSE s2

\* the ids _resetGuideLines drops, line 938
GuideIds == {"mean-line", "median-line", "weightedMean-line"}

\* datasets.filter(d => !ids.includes(d._id))
RECURSIVE DropGuides(_)
DropGuides(ds) ==
    IF ds = <<>> THEN <<>>
    ELSE IF Head(ds).id \in GuideIds THEN DropGuides(Tail(ds))
         ELSE <<Head(ds)>> \o DropGuides(Tail(ds))

\* _resetGuideLines that drops nothing
_resetGuideLines_Keep(s) == s

\* _resetGuideLines(), lines 936-940
_resetGuideLines(s) == [s EXCEPT !.datasets = DropGuides(@)]

\* Math.max(...ys, floor)
RECURSIVE MaxOf(_, _)
MaxOf(ys, floor) == IF ys = <<>> THEN floor ELSE MaxNum(Head(ys), MaxOf(Tail(ys), floor))

\* toggleMode that takes the new y of a point from the y it is plotted at
Remap_FromPlotted(weighted, data) ==
    [i \in 1..Len(data) |->
        [data[i] EXCEPT !.y = IF weighted THEN MathRound(Div(@, Int2Num(2)))
                              ELSE Mul(@, Int2Num(2))]]

\* the remap of lines 832-835: every plotted point's y from its own values
Remap(weighted, data) ==
    [i \in 1..Len(data) |-> [data[i] EXCEPT !.y = ProjectY(weighted, data[i])]]

\* lines 839-840: the y-axis maximum taken anew from the plotted points
FreshYMax(s) ==
    LET yVals == FiniteYs(s.data)
    IN IF yVals # <<>>
       THEN MathCeil(Add(MaxOf(yVals, s.yBaselineMin), Int2Num(5)))
       ELSE Undefined

\* toggleMode that puts the chart back into its building state
toggleMode_Restart(s) ==
    LET s1 == [s EXCEPT !.showWeighted = ~@, !.finalized = FALSE]
        s2 == [s1 EXCEPT !.data = Remap(s1.showWeighted, @)]
        s3 == _resetGuideLines(s2)
    IN [s3 EXCEPT !.yMax = FreshYMax(s3)]

\* toggleMode(), lines 819-844
toggleMode(s) ==
    LET s1 == [s EXCEPT !.showWeighted = ~@]
        s2 == [s1 EXCEPT !.data = Remap(s1.showWeighted, @)]
        s3 == _resetGuideLines(s2)
        s4 == [s3 EXCEPT !.yMax = FreshYMax(s3)]
    IN addStatsLines(s4)

(***************************************************************************)
(* The aggregator: VoterTip.js, prefetchEfficiencyData, lines 72-158       *)
(***************************************************************************)
\* the retry budget of line 87
MaxAttempts == 5

\* getHistoricCurationRewards that lets the failure of the fetch escape
getHistoricCurationRewards_Rethrow(ok, table) ==
    IF ok THEN [threw |-> FALSE, isNull |-> FALSE, rows |-> table]
    ELSE [threw |-> TRUE, isNull |-> TRUE, rows |-> <<>>]

\* getHistoricCurationRewards, votes.js lines 94-125: data.result, or null
\* when the fetch fails (the catch of line 121 logs and returns null)
getHistoricCurationRewards(ok, table) ==
    IF ok THEN [threw |-> FALSE, isNull |-> FALSE, rows |-> table]
    ELSE [threw |-> FALSE, isNull |-> TRUE, rows |-> <<>>]

\* the window of votes.js lines 95-106 for a post created at createdMs, in
\* epoch seconds: Math.floor of the two bounds in ms over 1000
\* a lower bound counted back from the creation time itself
lowerDayOf_NoDayBefore(createdMs, days) == FloorQ(createdMs - days * DayMs, 1000)

lowerDayOf(createdMs, days) == FloorQ(createdMs - DayMs - days * DayMs, 1000)
upperDayOf(createdMs, days) == FloorQ(createdMs - DayMs, 1000)

\* what a tip knows before its run: its voter (this.user, here the tip's
\* number), the creation time of its post and its days; nothing is sent yet
NewRequest(t, createdMs, days) ==
    [voter |-> t, created |-> createdMs, days |-> days, sent |-> FALSE,
     url |-> <<>>]

\* line 109: the url of the request, by its parts
\* .../curation_reward/${voter}/${lowerDay}-${upperDay}
SendRequest(r) ==
    [r EXCEPT !.sent = TRUE,
              !.url = <<"curation_reward", r.voter,
                        lowerDayOf(r.created, r.days), upperDayOf(r.created, r.days)>>]

\* res?.rows ?? [], line 76
RowsOf(res) == IF res.isNull THEN <<>> ELSE res.rows

\* err?.message?.includes("503") || err?.status === 503 || err?.code === 503
Is503(err) ==
    \/ \E i \in 1..Len(err.message) : err.message[i] = "503"
    \/ err.status = 503
    \/ err.code = 503

\* histPost kept from the event before (declared outside the for-of body)
FreshHistPost_Stale(prev) == prev

\* let histPost; of line 86: undefined at the start of every event
FreshHistPost(prev) == NoPost

\* this.vote.rshares / 1000000, line 115
voterRsharesOf(v) == Div(v.rshares, Int2Num(1000000))

\* Number(reward[vIdx]) || 0, line 111
voterVestsOf(reward) ==
    LET n == ToNumber(reward.vests) IN IF Truthy(n) THEN n ELSE Int2Num(0)

\* lines 112-113
totalVestsOf(hp) == ToNumber(Nullish(Nullish(hp.total_vests, hp.totalVests), Int2Num(0)))
totalRsharesOf(hp) == ToNumber(Nullish(Nullish(hp.total_rshares, hp.totalRshares), Int2Num(0)))

\* the tests without the one of the event's vest amount
Rejected_NoVestsTest(reward, hp, v) ==
    \/ Leq(totalVestsOf(hp), Int2Num(0))
    \/ Leq(totalRsharesOf(hp), Int2Num(0))
    \/ Leq(voterRsharesOf(v), Int2Num(0))
    \/ Leq(Div(voterRsharesOf(v), totalRsharesOf(hp)), Int2Num(0))

\* the tests of lines 117 and 121: the event is dropped
Rejected(reward, hp, v) ==
    \/ Leq(totalVestsOf(hp), Int2Num(0))
    \/ Leq(totalRsharesOf(hp), Int2Num(0))
    \/ Leq(voterRsharesOf(v), Int2Num(0))
    \/ Leq(voterVestsOf(reward), Int2Num(0))
    \/ Leq(Div(voterRsharesOf(v), totalRsharesOf(hp)), Int2Num(0))

\* the ratio of line 123 taken upside down
efficiencyOf_Inverted(pctReceived, pctContributed) ==
    MathRound(Mul(Div(pctContributed, pctReceived), Int2Num(100)))

\* Math.round((pctReceived / pctContributed) * 100), line 123
efficiencyOf(pctReceived, pctContributed) ==
    MathRound(Mul(Div(pctReceived, pctContributed), Int2Num(100)))

\* Math.round(efficiency * voteWeight), voteWeight = vote.percent / 10000,
\* lines 125-127
weightedEfficiencyOf(efficiency, v) ==
    MathRound(Mul(efficiency, Div(v.percent, Int2Num(10000))))

\* the share of the payout without the toFixed(2)
shareValueOf_Unrounded(part, whole, totalValue) == Mul(Div(part, whole), totalValue)

\* Number(((part / whole) * totalValue).toFixed(2)), lines 132-133
shareValueOf(part, whole, totalValue) == ToFixed2(Mul(Div(part, whole), totalValue))

\* lines 119-145: the point of an event and the value the vote contributed
Compute(reward, hp, v, postAuthor) ==
    LET voterVests == voterVestsOf(reward)
        totalVests == totalVestsOf(hp)
        totalRshares == totalRsharesOf(hp)
        voterRshares == voterRsharesOf(v)
        pctContributed == Div(voterRshares, totalRshares)
        pctReceived == Div(voterVests, totalVests)
        efficiency == efficiencyOf(pctReceived, pctContributed)
        weightedEfficiency == weightedEfficiencyOf(efficiency, v)
        tsMs == Mul(reward.time, Int2Num(1000))
        totalValue == ToFixed2(hp.total_payout_value)
        voterRewardValue == shareValueOf(voterVests, totalVests, totalValue)
        voterContributedValue == shareValueOf(voterRshares, totalRshares, totalValue)
    IN [point |-> [tsMs |-> tsMs, efficiency |-> efficiency,
                   weightedEff |-> weightedEfficiency,
                   voterRewardValue |-> voterRewardValue,
                   totalValue |-> totalValue,
                   sameAuthor |-> (hp.author = postAuthor)],
        voterContributedValue |-> voterContributedValue]

\* formatK of updateMetrics, lines 180-190, for a whole count: the count
\* itself below 1000, thousands above
formatK(value) == IF value < 1000 THEN value ELSE value \div 1000

NoPoint == [tsMs |-> Undefined, efficiency |-> Undefined, weightedEff |-> Undefined,
            voterRewardValue |-> Undefined, totalValue |-> Undefined,
            sameAuthor |-> FALSE]

LogEvent(t, outcome, hp, point) ==
    Append(evlog[t], [row |-> idx[t], reward |-> rows[t][idx[t]], outcome |-> outcome,
                      attempts |-> IF outcome = "falsy" THEN <<>> ELSE attemptLog[t],
                      post |-> hp, point |-> point])

\* a loop over the tips that does not await the run before
PrevRunDone_Always == TRUE

\* await tip.prefetchEfficiencyData() of the tip before has returned
PrevRunDone == IF cur = 0 THEN TRUE ELSE pc[tips[cur]] = "done"

\* getTipEfficiency, votes.js lines 88-92: the next tip's run is started once
\* the run before it has resolved; the run sends its request to the reward
\* source (votes.js lines 95-112) and stands at its window fetch
StartRun(t) ==
    /\ tipEfficiency = "pending"
    /\ cur < Len(tips)
    /\ tips[cur + 1] = t
    /\ PrevRunDone
    /\ pc[t] = "idle"
    /\ cur' = cur + 1
    /\ pc' = [pc EXCEPT ![t] = "fetch"]
    /\ request' = [request EXCEPT ![t] = SendRequest(@)]
    /\ UNCHANGED <<hoverVars, cacheVars, tips, tipEfficiency, chartLog, vote, source, rows, idx, attempt,
                   awaiting, histPost, efficiencyData, totalCurationRew,
                   contributedValue, totAuthor, metrics, scatter, fetched,
                   attemptLog, evlog>>

\* the last run has resolved: getTipEfficiency resolves
TipEfficiencyResolve ==
    /\ tipEfficiency = "pending"
    /\ cur = Len(tips)
    /\ PrevRunDone
    /\ tipEfficiency' = "resolved"
    /\ UNCHANGED <<hoverVars, cacheVars, tips, cur, tipVars>>

\* the awaited run has rejected: getTipEfficiency rejects, no later run starts
TipEfficiencyReject ==
    /\ tipEfficiency = "pending"
    /\ cur > 0
    /\ pc[tips[cur]] = "threw"
    /\ tipEfficiency' = "rejected"
    /\ UNCHANGED <<hoverVars, cacheVars, tips, cur, tipVars>>

\* lines 75-78: the window fetch settles, with the table or with a failure
FetchDone(t, ok) ==
    /\ pc[t] = "fetch"
    /\ LET res == getHistoricCurationRewards(ok, source[t])
       IN /\ fetched' = [fetched EXCEPT ![t] = IF ok THEN "ok" ELSE "failed"]
          /\ rows' = [rows EXCEPT ![t] = RowsOf(res)]
          /\ pc' = [pc EXCEPT ![t] = IF res.threw THEN "threw" ELSE "loop"]
    /\ idx' = [idx EXCEPT ![t] = 1]
    /\ UNCHANGED <<hoverVars, cacheVars, driverVars, chartLog, request, vote, source, attempt,
                   awaiting, histPost, efficiencyData, totalCurationRew,
                   contributedValue, totAuthor, metrics, scatter, attemptLog, evlog>>

\* a row the loop would fetch although its time is falsy
FalsyTime_Never(reward) == FALSE

\* !timeSec of line 83
FalsyTime(reward) == ~Truthy(reward.time)

\* lines 80-87 and 156-157: the for-of loop takes the next row; a row with a
\* falsy time is passed over; past the last row the chart is finalized
NextEvent(t) ==
    /\ pc[t] = "loop"
    /\ IF idx[t] > Len(rows[t])
       THEN /\ scatter' = [scatter EXCEPT ![t] = addStatsLines(finalize(@))]
            /\ pc' = [pc EXCEPT ![t] = "done"]
            /\ UNCHANGED <<idx, attempt, histPost, attemptLog, evlog>>
       ELSE IF FalsyTime(rows[t][idx[t]])
       THEN /\ idx' = [idx EXCEPT ![t] = @ + 1]
            /\ evlog' = [evlog EXCEPT ![t] = LogEvent(t, "falsy", NoPost, NoPoint)]
            /\ attemptLog' = [attemptLog EXCEPT ![t] = <<>>]
            /\ UNCHANGED <<pc, attempt, histPost, scatter>>
       ELSE /\ histPost' = [histPost EXCEPT ![t] = FreshHistPost(@)]
            /\ attempt' = [attempt EXCEPT ![t] = 0]
            /\ attemptLog' = [attemptLog EXCEPT ![t] = <<>>]
            /\ pc' = [pc EXCEPT ![t] = "try"]
            /\ UNCHANGED <<idx, evlog, scatter>>
    /\ UNCHANGED <<hoverVars, cacheVars, driverVars, chartLog, request, vote, source, rows, awaiting,
                   efficiencyData, totalCurationRew, contributedValue, totAuthor,
                   metrics, fetched>>

\* line 89: getPostCached is called and its promise awaited
Attempt(t) ==
    /\ pc[t] = "try"
    /\ LET reward == rows[t][idx[t]]
           r == getPostCached(reward.author, reward.permlink, reward.time)
       IN /\ postCache' = r.cache
          /\ promises' = r.promises
          /\ calls' = LogCall(reward.author, reward.permlink, reward.time, r)
          /\ awaiting' = [awaiting EXCEPT ![t] = r.ret]
    /\ pc' = [pc EXCEPT ![t] = "await"]
    /\ UNCHANGED <<hoverVars, driverVars, chartLog, request, vote, source, rows, idx, attempt, histPost,
                   efficiencyData, totalCurationRew, contributedValue, totAuthor,
                   metrics, scatter, fetched, attemptLog, evlog>>

\* a retry loop that leaves (break) as soon as an attempt has succeeded
Settled_BreakOnSuccess(t) ==
    /\ pc[t] = "await"
    /\ promises[awaiting[t]].state # "pending"
    /\ LET p == promises[awaiting[t]]
           outcome == IF p.state = "fulfilled" THEN "ok"
                      ELSE IF Is503(p.err) THEN "503" ELSE "other"
       IN /\ attemptLog' = [attemptLog EXCEPT ![t] = Append(@, outcome)]
          /\ histPost' = [histPost EXCEPT ![t] = IF outcome = "ok" THEN p.value ELSE @]
          /\ attempt' = [attempt EXCEPT ![t] = IF outcome = "other" THEN @ ELSE @ + 1]
          /\ pc' = [pc EXCEPT ![t] =
                        IF outcome = "other" THEN "threw"
                        ELSE IF outcome = "ok" THEN "process"
                        ELSE IF attempt[t] + 1 < MaxAttempts THEN "try" ELSE "process"]
    /\ UNCHANGED <<hoverVars, cacheVars, driverVars, chartLog, request, vote, source, rows, idx, awaiting,
                   efficiencyData, totalCurationRew, contributedValue, totAuthor,
                   metrics, scatter, fetched, evlog>>

\* lines 89-101: the awaited promise has settled. Fulfilled: histPost is set.
\* Rejected with a 503: sleep(100) is started and not awaited. Rejected with
\* anything else: line 98 reads `error`, a name nothing declares, and the
\* ReferenceError leaves the catch block and rejects the run.
Settled(t) ==
    /\ pc[t] = "await"
    /\ promises[awaiting[t]].state # "pending"
    /\ LET p == promises[awaiting[t]]
           outcome == IF p.state = "fulfilled" THEN "ok"
                      ELSE IF Is503(p.err) THEN "503" ELSE "other"
       IN /\ attemptLog' = [attemptLog EXCEPT ![t] = Append(@, outcome)]
          /\ histPost' = [histPost EXCEPT ![t] = IF outcome = "ok" THEN p.value ELSE @]
          /\ attempt' = [attempt EXCEPT ![t] = IF outcome = "other" THEN @ ELSE @ + 1]
          /\ pc' = [pc EXCEPT ![t] =
                        IF outcome = "other" THEN "threw"
                        ELSE IF attempt[t] + 1 < MaxAttempts THEN "try" ELSE "process"]
    /\ UNCHANGED <<hoverVars, cacheVars, driverVars, chartLog, request, vote, source, rows, idx, awaiting,
                   efficiencyData, totalCurationRew, contributedValue, totAuthor,
                   metrics, scatter, fetched, evlog>>

\* lines 103-152: the event after the retry loop, up to the throttle
ProcessEvent(t) ==
    /\ pc[t] = "process"
    /\ LET reward == rows[t][idx[t]]
           hp == histPost[t]
           same == hp.author = PostAuthor
           c == Compute(reward, hp, vote[t], PostAuthor)
       IN IF hp = NoPost
          THEN /\ idx' = [idx EXCEPT ![t] = @ + 1]
               /\ pc' = [pc EXCEPT ![t] = "loop"]
               /\ evlog' = [evlog EXCEPT ![t] = LogEvent(t, "unresolved", hp, NoPoint)]
               /\ UNCHANGED <<efficiencyData, totalCurationRew, contributedValue,
                              totAuthor, metrics, scatter>>
          ELSE IF Rejected(reward, hp, vote[t])
          THEN /\ totAuthor' = [totAuthor EXCEPT ![t] = IF same THEN @ + 1 ELSE @]
               /\ idx' = [idx EXCEPT ![t] = @ + 1]
               /\ pc' = [pc EXCEPT ![t] = "loop"]
               /\ evlog' = [evlog EXCEPT ![t] = LogEvent(t, "rejected", hp, NoPoint)]
               /\ UNCHANGED <<efficiencyData, totalCurationRew, contributedValue,
                              metrics, scatter>>
          ELSE /\ totAuthor' = [totAuthor EXCEPT ![t] = IF same THEN @ + 1 ELSE @]
               /\ contributedValue' = [contributedValue EXCEPT ![t] =
                                           Add(@, c.voterContributedValue)]
               /\ totalCurationRew' = [totalCurationRew EXCEPT ![t] =
                                           Add(@, c.point.voterRewardValue)]
               /\ efficiencyData' = [efficiencyData EXCEPT ![t] = Append(@, c.point)]
               /\ scatter' = [scatter EXCEPT ![t] = pushPoint(@, c.point)]
               /\ metrics' = [metrics EXCEPT ![t] =
                                  [totalRewards |-> formatK(Len(efficiencyData'[t])),
                                   authorVotes |-> formatK(totAuthor'[t])]]
               /\ evlog' = [evlog EXCEPT ![t] = LogEvent(t, "emitted", hp, c.point)]
               /\ pc' = [pc EXCEPT ![t] = "sleep"]
               /\ UNCHANGED idx
    /\ UNCHANGED <<hoverVars, cacheVars, driverVars, chartLog, request, vote, source, rows, attempt, awaiting,
                   histPost, fetched, attemptLog>>

\* line 152: sleep(50) is over, the loop goes on with the next row
Wake(t) ==
    /\ pc[t] = "sleep"
    /\ idx' = [idx EXCEPT ![t] = @ + 1]
    /\ pc' = [pc EXCEPT ![t] = "loop"]
    /\ UNCHANGED <<hoverVars, cacheVars, driverVars, chartLog, request, vote, source, rows, attempt, awaiting,
                   histPost, efficiencyData, totalCurationRew, contributedValue,
                   totAuthor, metrics, scatter, fetched, attemptLog, evlog>>

(***************************************************************************)
(* Specifications                                                          *)
(***************************************************************************)
\* what holds of a tip after its constructor, VoterTip.js lines 18-43
TipFieldsInit ==
    /\ pc = [t \in Tips |-> "idle"]
    /\ rows = [t \in Tips |-> <<>>]
    /\ idx = [t \in Tips |-> 1]
    /\ attempt = [t \in Tips |-> 0]
    /\ awaiting = [t \in Tips |-> 0]
    /\ histPost = [t \in Tips |-> NoPost]
    /\ efficiencyData = [t \in Tips |-> <<>>]
    /\ totalCurationRew = [t \in Tips |-> Int2Num(0)]
    /\ contributedValue = [t \in Tips |-> Int2Num(0)]
    /\ totAuthor = [t \in Tips |-> 0]
    /\ metrics = [t \in Tips |-> [totalRewards |-> 0, authorVotes |-> 0]]
    /\ fetched = [t \in Tips |-> "pending"]
    /\ attemptLog = [t \in Tips |-> <<>>]
    /\ evlog = [t \in Tips |-> <<>>]
    /\ chartLog = <<>>
    /\ tipVisible = [t \in Tips |-> FALSE]
    /\ currentLi = 0
    /\ hoverLog = <<>>

\* addChart() of line 43: every tip has its chart
TipInit ==
    /\ TipFieldsInit
    /\ scatter = [t \in Tips |-> NewScatter]
    /\ request = [t \in Tips |-> NewRequest(t, Created, Days)]

CacheInit ==
    /\ postCache = [k \in Keys |-> 0]
    /\ promises = <<>>
    /\ calls = <<>>

DefaultVote == [rshares |-> Int2Num(100000000), percent |-> Int2Num(10000)]

\* one tip is handed to getTipEfficiency; its vote and the table of its
\* voter are any of the model's
Init ==
    /\ CacheInit
    /\ TipInit
    /\ tips = <<1>>
    /\ cur = 0
    /\ tipEfficiency = "pending"
    /\ \E v \in Votes, tb \in Tables :
          /\ vote = [t \in Tips |-> IF t = 1 THEN v ELSE DefaultVote]
          /\ source = [t \in Tips |-> IF t = 1 THEN tb ELSE <<>>]

Next ==
    \/ BuildAdvance
    \/ BuildResolve
    \/ BuildThrow
    \/ \E t \in Tips : StartRun(t)
    \/ TipEfficiencyResolve
    \/ TipEfficiencyReject
    \/ \E t \in Tips, ok \in BOOLEAN : FetchDone(t, ok)
    \/ \E t \in Tips : NextEvent(t)
    \/ \E t \in Tips : Attempt(t)
    \/ \E t \in Tips : Settled(t)
    \/ \E t \in Tips : ProcessEvent(t)
    \/ \E t \in Tips : Wake(t)

Spec == Init /\ [][Next]_vars

\* where a run can stand
PCs == {"idle", "fetch", "loop", "try", "await", "process", "sleep", "done", "threw"}

\* the run has a continuation ready to run: it is at a step of its own, or
\* the promise it awaits has settled (the window fetch and sleep(50) always
\* settle)
RunReady(t) ==
    \/ pc[t] \in {"fetch", "loop", "try", "process", "sleep"}
    \/ pc[t] = "await" /\ promises[awaiting[t]].state # "pending"
    \/ /\ pc[t] = "idle"
       /\ tipEfficiency = "pending"
       /\ cur < Len(tips)
       /\ tips[cur + 1] = t
       /\ PrevRunDone

\* the ready continuation of the run is run: the run moves on in its code
\* or in its table
RunMoves(t) ==
    /\ RunReady(t)
    /\ \E q \in PCs : pc' = [pc EXCEPT ![t] = q]
    /\ \E i \in {idx[t], idx[t] + 1} : idx' = [idx EXCEPT ![t] = i]

\* a pending build goes on or settles
BuildMoves == BuildAdvance \/ BuildResolve \/ BuildThrow

\* the run of the one tip when the event loop runs every ready continuation
\* and every fetch of a build settles
SpecLive ==
    /\ Init
    /\ [][Next]_vars
    /\ \A t \in Tips : WF_<<pc, idx>>(RunMoves(t))
    /\ WF_vars(BuildMoves)
    /\ WF_vars(TipEfficiencyResolve \/ TipEfficiencyReject)

(***************************************************************************)
(* The hover handlers: votes.js, attachVoterHoverTooltips, lines 56-84     *)
(***************************************************************************)
\* where the pointer can be inside the voters list: between the rows, on a
\* row outside its tooltip, inside the tooltip of a row
HoverTargets ==
    {[kind |-> "gap", li |-> 0]} \cup {[kind |-> k, li |-> r] : k \in {"row", "tip"}, r \in Tips}

\* e.relatedTarget of a mouseout: an element of the list, an element outside
\* it, or null
RelatedTargets ==
    HoverTargets \cup {[kind |-> "outside", li |-> 0], [kind |-> "none", li |-> 0]}

\* el.closest('li.vote-item'), 0 for null
closestLi(el) == IF el.kind \in {"row", "tip"} THEN el.li ELSE 0

\* el.closest('.voter-tooltip') is an element
inTooltip(el) == el.kind = "tip"

\* votersUL.contains(el)
ulContains(el) == el.kind \in {"gap", "row", "tip"}

\* li.contains(el)
liContains(li, el) == el.kind \in {"row", "tip"} /\ el.li = li

\* the hover state: currentLi, the tooltips' visibility, the calls made
HoverState == [currentLi |-> currentLi, tipVisible |-> tipVisible, hoverLog |-> hoverLog]

\* VoterTip.show() and hide(), VoterTip.js lines 201-206, called by ev
show(h, li, ev) ==
    [h EXCEPT !.tipVisible[li] = TRUE,
              !.hoverLog = Append(@, [ev |-> ev, call |-> "show", li |-> li])]
hide(h, li, ev) ==
    [h EXCEPT !.tipVisible[li] = FALSE,
              !.hoverLog = Append(@, [ev |-> ev, call |-> "hide", li |-> li])]

\* a mouseover handler that shows the new row's tooltip and hides none
onMouseOver_NoHide(h, target) ==
    LET li == closestLi(target)
    IN IF inTooltip(target) THEN h
       ELSE IF li = 0 \/ li = h.currentLi THEN h
       ELSE show([h EXCEPT !.currentLi = li], li, "mouseover")

\* the mouseover handler, lines 58-69
onMouseOver(h, target) ==
    LET li == closestLi(target)
        h1 == IF h.currentLi # 0 THEN hide(h, h.currentLi, "mouseover") ELSE h
    IN IF inTooltip(target) THEN h
       ELSE IF li = 0 \/ li = h.currentLi THEN h
       ELSE show([h1 EXCEPT !.currentLi = li], li, "mouseover")

\* the mouseout handler, lines 71-84
onMouseOut(h, target, related) ==
    LET li == closestLi(target)
    IN IF related.kind # "none" /\ (ulContains(related) \/ inTooltip(related)) THEN h
       ELSE IF li = 0 \/ li # h.currentLi THEN h
       ELSE IF related.kind = "none" \/ ~liContains(li, related)
            THEN [hide(h, li, "mouseout") EXCEPT !.currentLi = 0]
            ELSE h

\* the most calls the handlers are followed for
MaxHover == 8

HoverCall(after) ==
    /\ Len(hoverLog) < MaxHover
    /\ currentLi' = after.currentLi
    /\ tipVisible' = after.tipVisible
    /\ hoverLog' = after.hoverLog
    /\ UNCHANGED <<cacheVars, driverVars, tipVars>>

\* the list gets a mouseover event
MouseOver == \E target \in HoverTargets : HoverCall(onMouseOver(HoverState, target))

\* the list gets a mouseout event
MouseOut ==
    \E target \in HoverTargets, related \in RelatedTargets :
       HoverCall(onMouseOut(HoverState, target, related))

\* the tips of the voters list are built and nothing is hovered yet
InitHover ==
    /\ CacheInit
    /\ TipInit
    /\ tips = <<1, 2>>
    /\ cur = 0
    /\ tipEfficiency = "pending"
    /\ vote = [t \in Tips |-> DefaultVote]
    /\ source = [t \in Tips |-> <<>>]

NextHover == MouseOver \/ MouseOut

SpecHover == InitHover /\ [][NextHover]_vars

\* the rows of the tables of two tips that run one after the other: a row to
\* resolve and rows with a falsy time (0 and a missing one)
TipRows ==
    { [time |-> Int2Num(400000), author |-> "alice", permlink |-> "p1", vests |-> Int2Num(5)],
      [time |-> Int2Num(0), author |-> "bob", permlink |-> "p2", vests |-> Int2Num(5)],
      [time |-> Undefined, author |-> "bob", permlink |-> "p2", vests |-> Int2Num(5)] }
\* the largest table of such a tip
MaxTipRows == 2
TipTables == UNION {[1..n -> TipRows] : n \in 0..MaxTipRows}

\* two tips are handed to getTipEfficiency, each with any of these tables
InitTips ==
    /\ CacheInit
    /\ TipInit
    /\ tips = <<1, 2>>
    /\ cur = 0
    /\ tipEfficiency = "pending"
    /\ vote = [t \in Tips |-> DefaultVote]
    /\ source \in [Tips -> TipTables]

SpecTips == InitTips /\ [][Next]_vars

\* the creation times a post can have, in ms: around the start of a day,
\* of a second and of the epoch
CreatedTimes ==
    {DayMs * d + r : d \in {0, 1, 12},
                     r \in {-1001, -1000, -999, -1, 0, 1, 499, 999, 1000}}
\* the largest days of a tip
MaxDays == 7

\* a tip whose post was created at any of these times, with any days
InitWindow ==
    /\ CacheInit
    /\ TipFieldsInit
    /\ scatter = [t \in Tips |-> NewScatter]
    /\ tips = <<>>
    /\ cur = 0
    /\ tipEfficiency = "pending"
    /\ vote = [t \in Tips |-> DefaultVote]
    /\ source = [t \in Tips |-> <<>>]
    /\ \E createdMs \in CreatedTimes, days \in 0..MaxDays :
          request = [t \in Tips |-> IF t = 1 THEN NewRequest(t, createdMs, days)
                                    ELSE NewRequest(t, Created, Days)]

\* getHistoricCurationRewards is called for the tip and sends its request
WindowCall ==
    /\ ~request[1].sent
    /\ request' = [request EXCEPT ![1] = SendRequest(@)]
    /\ UNCHANGED <<hoverVars, cacheVars, driverVars, vote, source, pc, rows, idx, attempt,
                   awaiting, histPost, efficiencyData, totalCurationRew,
                   contributedValue, totAuthor, metrics, scatter, fetched,
                   attemptLog, evlog, chartLog>>

NextWindow == WindowCall

SpecWindow == InitWindow /\ [][NextWindow]_vars

\* the bare cache, called by any holder in any order
InitCache ==
    /\ CacheInit
    /\ TipInit
    /\ tips = <<>>
    /\ cur = 0
    /\ tipEfficiency = "pending"
    /\ vote = [t \in Tips |-> DefaultVote]
    /\ source = [t \in Tips |-> <<>>]

\* what the callers of the bare cache ask for
CallTimes == {Int2Num(1000), Int2Num(400000)}
CallPosts == {<<"alice", "p1">>, <<"bob", "p2">>}

NextCache ==
    \/ BuildAdvance
    \/ BuildResolve
    \/ BuildThrow
    \/ \E ap \in CallPosts, time \in CallTimes : CacheCall(ap[1], ap[2], time)

SpecCache == InitCache /\ [][NextCache]_vars

\* a point as prefetchEfficiencyData hands it to pushPoint, lines 138-145
Pt(tsMs, efficiency, weightedEff) ==
    [tsMs |-> tsMs, efficiency |-> efficiency, weightedEff |-> weightedEff,
     voterRewardValue |-> Int2Num(1), totalValue |-> Int2Num(10),
     sameAuthor |-> FALSE]

\* the points the callers of the bare chart push: inside the window and
\* before its start, whole, fractional, zero and negative values, and a
\* non-finite tsMs, efficiency or weightedEff
ChartPoints ==
    { Pt(Int2Num(1000000), Int2Num(50), Fin(51, 2)),
      Pt(Int2Num(500000000), Int2Num(-5), Int2Num(0)),
      Pt(Int2Num(400000000), Int2Num(-20), Int2Num(4)),
      Pt(Int2Num(400000000), Int2Num(30), NaN),
      Pt(Int2Num(400000000), NaN, Int2Num(20)),
      Pt(NaN, Int2Num(10), Int2Num(10)) }

\* the number of calls the callers of the bare chart make
MaxOps == 5

\* one call on the chart of tip 1, entered in the history with the state it left
ChartCall(op, point, after) ==
    /\ Len(chartLog) < MaxOps
    /\ scatter' = [scatter EXCEPT ![1] = after]
    /\ chartLog' = Append(chartLog, [op |-> op, point |-> point, after |-> after])
    /\ UNCHANGED <<hoverVars, cacheVars, driverVars, request, vote, source, pc, rows, idx, attempt,
                   awaiting, histPost, efficiencyData, totalCurationRew,
                   contributedValue, totAuthor, metrics, fetched, attemptLog, evlog>>

ChartPushPoint(point) == ChartCall("pushPoint", point, pushPoint(scatter[1], point))
\* the toggle button is clicked, line 758
ChartToggleMode == ChartCall("toggleMode", NoPoint, toggleMode(scatter[1]))
ChartFinalize == ChartCall("finalize", NoPoint, finalize(scatter[1]))
ChartAddStatsLines == ChartCall("addStatsLines", NoPoint, addStatsLines(scatter[1]))

\* the bare chart, its methods called by any holder in any order
NextChart ==
    \/ \E point \in ChartPoints : ChartPushPoint(point)
    \/ ChartToggleMode
    \/ ChartFinalize
    \/ ChartAddStatsLines

SpecChart == InitCache /\ [][NextChart]_vars

\* the y a chart can hold: Math.round gives whole numbers, or NaN
StatsYs == {Int2Num(10), Int2Num(20), Int2Num(30), Int2Num(40), NaN}
\* the number of points of a chart whose statistics are taken
MaxYs == 4

\* pushPoint called for each of the points in turn
RECURSIVE PushAll(_, _)
PushAll(s, points) ==
    IF points = <<>> THEN s ELSE PushAll(pushPoint(s, Head(points)), Tail(points))

\* a chart switched to the weighted view on which points of the given
\* weighted efficiencies were pushed
ChartWithYs(ys) ==
    PushAll(toggleMode(NewScatter),
            [i \in 1..Len(ys) |-> Pt(Int2Num(400000000), Int2Num(50), ys[i])])

\* a chart holding any such points, before _stats() is called on it
InitStats ==
    /\ CacheInit
    /\ TipFieldsInit
    /\ tips = <<>>
    /\ cur = 0
    /\ tipEfficiency = "pending"
    /\ vote = [t \in Tips |-> DefaultVote]
    /\ source = [t \in Tips |-> <<>>]
    /\ \E n \in 0..MaxYs : \E ys \in [1..n -> StatsYs] :
          scatter = [t \in Tips |-> IF t = 1 THEN ChartWithYs(ys) ELSE NewScatter]
    /\ request = [t \in Tips |-> NewRequest(t, Created, Days)]

\* _stats() is called and what it returns is entered in the history
StatsCall ==
    /\ chartLog = <<>>
    /\ chartLog' = <<[op |-> "_stats", ret |-> _stats(scatter[1])]>>
    /\ UNCHANGED <<hoverVars, cacheVars, driverVars, request, vote, source, pc, rows, idx, attempt,
                   awaiting, histPost, efficiencyData, totalCurationRew,
                   contributedValue, totAuthor, metrics, scatter, fetched,
                   attemptLog, evlog>>

NextStats == StatsCall

SpecStats == InitStats /\ [][NextStats]_vars

(***************************************************************************)
(* Properties                                                              *)
(***************************************************************************)
PromisesOf(key) == {id \in 1..Len(promises) : promises[id].key = key}
FirstCall(key) == CHOOSE i \in 1..Len(calls) :
                      /\ calls[i].key = key
                      /\ \A j \in 1..Len(calls) : calls[j].key = key => i <= j

\* C1: on one cache, all getPostCached calls with the same author/permlink
\* key return the identical promise whatever their time argument, the build
\* is started at most once per key, and it carries the time of the first call.
C1_Dedup ==
    /\ \A i, j \in 1..Len(calls) :
          calls[i].key = calls[j].key => calls[i].ret = calls[j].ret
    /\ \A k \in Keys : Cardinality(PromisesOf(k)) <= 1
    /\ \A id \in 1..Len(promises) :
          /\ \E i \in 1..Len(calls) : calls[i].key = promises[id].key
          /\ promises[id].time = calls[FirstCall(promises[id].key)].time

\* two calls for one key with different times got the same promise, and
\* another key was built beside it
C1_Witness ==
    /\ \E i, j \in 1..Len(calls) :
          /\ i < j
          /\ calls[i].key = calls[j].key
          /\ calls[i].time # calls[j].time
          /\ calls[i].ret = calls[j].ret
          /\ calls[j].found = "pending"
    /\ Len(promises) = 2

\* C2: a rejected promise stays stored under its key; every call that finds
\* it gets that same rejected promise, and no second build is started for the
\* key.
C2_FailureCached ==
    /\ \A id \in 1..Len(promises) :
          promises[id].state = "rejected" => postCache[promises[id].key] = id
    /\ \A i \in 1..Len(calls) :
          calls[i].found = "rejected" =>
             /\ promises[calls[i].ret].state = "rejected"
             /\ calls[i].ret = postCache[calls[i].key]
             /\ \A j \in 1..i : calls[j].key = calls[i].key => calls[j].ret = calls[i].ret
             /\ Cardinality(PromisesOf(calls[i].key)) = 1

\* two calls came for a key after its promise was rejected
C2_Witness ==
    \E i, j \in 1..Len(calls) :
       /\ i < j
       /\ calls[i].key = calls[j].key
       /\ calls[i].found = "rejected"
       /\ calls[j].found = "rejected"

AllAttempts503(t) ==
    /\ Len(attemptLog[t]) = MaxAttempts
    /\ \A i \in 1..Len(attemptLog[t]) : attemptLog[t][i] = "503"

\* C3: an event whose five attempts all failed with a 503 is skipped: the
\* step that follows the retry loop leaves efficiencyData, both totals, the
\* same-author counter, the rendered counters and the chart as they were and
\* moves the loop to the next event.
C3_Skipped503 ==
    [][\A t \in Tips :
          (pc[t] = "process" /\ AllAttempts503(t) /\ pc'[t] # "process") =>
             /\ efficiencyData'[t] = efficiencyData[t]
             /\ contributedValue'[t] = contributedValue[t]
             /\ totalCurationRew'[t] = totalCurationRew[t]
             /\ totAuthor'[t] = totAuthor[t]
             /\ metrics'[t] = metrics[t]
             /\ scatter'[t] = scatter[t]
             /\ pc'[t] = "loop"
             /\ idx'[t] = idx[t] + 1]_vars

\* an event was skipped after five 503 failures that followed an emitted
\* event, and the run went on to its end
C3_Witness ==
    \E t \in Tips :
       /\ pc[t] = "done"
       /\ Len(evlog[t]) = 2
       /\ evlog[t][1].outcome = "emitted"
       /\ evlog[t][2].outcome = "unresolved"
       /\ evlog[t][2].attempts = <<"503", "503", "503", "503", "503">>
       /\ Len(efficiencyData[t]) = 1

\* C4: after an attempt that failed with a failure that is no 503, made
\* while fewer than five attempts were made, the next attempt is made.
C4_Non503KeepsRetrying ==
    [][\A t \in Tips :
          (/\ pc[t] = "await"
           /\ promises[awaiting[t]].state = "rejected"
           /\ ~Is503(promises[awaiting[t]].err)
           /\ attempt[t] + 1 < MaxAttempts
           /\ pc'[t] # "await") => pc'[t] = "try"]_vars

C6_PerEventErrorsNonFatal ==
    \A t \in Tips :
       (\E i \in 1..Len(attemptLog[t]) : attemptLog[t][i] # "ok") =>
          /\ pc[t] # "threw"
          /\ tipEfficiency # "rejected"

\* the total vests of a resolved post as the event's inputs give it
TotalVestsIn(e) == IF e.post.total_vests.k = "undef" THEN e.post.totalVests ELSE e.post.total_vests
TotalRsharesIn(e) == IF e.post.total_rshares.k = "undef" THEN e.post.totalRshares ELSE e.post.total_rshares

IsPosInt(x) == x.k = "fin" /\ x.d = 1 /\ x.n > 0

\* whole positive inputs, vote.rshares a whole multiple of a million
PositiveInputs(e, v) ==
    /\ IsPosInt(e.reward.vests)
    /\ IsPosInt(TotalVestsIn(e))
    /\ IsPosInt(TotalRsharesIn(e))
    /\ IsPosInt(v.rshares) /\ v.rshares.n % 1000000 = 0
    /\ IsPosInt(v.percent)

\* E is x = a/b rounded to the nearest integer, halves up: E - 1/2 <= x < E + 1/2
RoundsTo(E, a, b) == (2 * E - 1) * b <= 2 * a /\ 2 * a < (2 * E + 1) * b

\* C7: every emitted point of an event with positive inputs has
\* efficiency = round(100 * (vests/totalVests) / (voterRshares/totalRshares)),
\* voterRshares = vote.rshares/1000000, and
\* weightedEff = round(efficiency * vote.percent/10000).
C7_Efficiency ==
    \A t \in Tips : \A i \in 1..Len(evlog[t]) :
       LET e == evlog[t][i]
           v == e.reward.vests.n
           TV == TotalVestsIn(e).n
           TR == TotalRsharesIn(e).n
           R == vote[t].rshares.n \div 1000000
           P == vote[t].percent.n
           E == e.point.efficiency
           W == e.point.weightedEff
       IN (e.outcome = "emitted" /\ PositiveInputs(e, vote[t])) =>
             /\ E.k = "fin" /\ E.d = 1
             /\ RoundsTo(E.n, 100 * v * TR, TV * R)
             /\ W.k = "fin" /\ W.d = 1
             /\ RoundsTo(W.n, E.n * P, 10000)

\* vests 5 of 100, rshares 100000000 of 1000, percent 10000: 50 and 50
C7_Witness ==
    \E t \in Tips : \E i \in 1..Len(evlog[t]) :
       LET e == evlog[t][i]
       IN /\ e.outcome = "emitted"
          /\ e.reward.vests = Int2Num(5)
          /\ e.post.total_vests = Int2Num(100)
          /\ e.post.total_rshares = Int2Num(1000)
          /\ vote[t] = [rshares |-> Int2Num(100000000), percent |-> Int2Num(10000)]
          /\ e.point.efficiency = Int2Num(50)
          /\ e.point.weightedEff = Int2Num(50)
          /\ scatter[t].rawPoints = <<e.point>>

\* the entries of a tip's log for which a point was emitted
RECURSIVE EmittedOf(_)
EmittedOf(log) ==
    IF log = <<>> THEN <<>>
    ELSE IF Head(log).outcome = "emitted"
         THEN <<Head(log)>> \o EmittedOf(Tail(log))
         ELSE EmittedOf(Tail(log))

\* round2(pctReceived * totalPayout) and round2(pctContributed * totalPayout)
\* from the inputs of an event
RewardValueIn(e) ==
    ToFixed2(Mul(Div(e.reward.vests, TotalVestsIn(e)),
                 ToFixed2(e.post.total_payout_value)))
ContributedValueIn(e, v) ==
    ToFixed2(Mul(Div(Div(v.rshares, Int2Num(1000000)), TotalRsharesIn(e)),
                 ToFixed2(e.post.total_payout_value)))

RECURSIVE SumRewardValues(_)
SumRewardValues(es) ==
    IF es = <<>> THEN Int2Num(0)
    ELSE Add(RewardValueIn(Head(es)), SumRewardValues(Tail(es)))

RECURSIVE SumContributedValues(_, _)
SumContributedValues(es, v) ==
    IF es = <<>> THEN Int2Num(0)
    ELSE Add(ContributedValueIn(Head(es), v), SumContributedValues(Tail(es), v))

\* C8: at every moment of a run the points emitted are those of
\* efficiencyData, totalCurationRew is the sum of
\* round2(pctReceived * totalPayout) and contributedValue the sum of
\* round2(pctContributed * totalPayout) over the events that emitted them,
\* and no other event adds to either.
C8_TotalsAreSums ==
    \A t \in Tips :
       LET es == EmittedOf(evlog[t])
       IN /\ efficiencyData[t] = [i \in 1..Len(es) |-> es[i].point]
          /\ \A i \in 1..Len(es) : es[i].point.voterRewardValue = RewardValueIn(es[i])
          /\ totalCurationRew[t] = SumRewardValues(es)
          /\ contributedValue[t] = SumContributedValues(es, vote[t])

\* a run over a rejected event and an emitted one whose values need rounding
C8_Witness ==
    \E t \in Tips :
       /\ pc[t] = "done"
       /\ Len(evlog[t]) = 2
       /\ evlog[t][1].outcome = "rejected"
       /\ evlog[t][2].outcome = "emitted"
       /\ evlog[t][2].post.total_payout_value = Fin(6173, 500)
       /\ IsFinite(totalCurationRew[t]) /\ totalCurationRew[t].n > 0
       /\ IsFinite(contributedValue[t]) /\ contributedValue[t].n > 0

\* C9: the rewards counter, the length of efficiencyData, is the number of
\* points the chart holds in rawPoints.
C9_CountMatchesChart ==
    \A t \in Tips :
       /\ Len(efficiencyData[t]) = Len(scatter[t].rawPoints)
       /\ metrics[t].totalRewards = Len(scatter[t].rawPoints)

FinitePoint(p) == IsFinite(p.tsMs) /\ IsFinite(p.efficiency) /\ IsFinite(p.weightedEff)

\* C10: no event with a non-finite tsMs, efficiency or weightedEff reaches
\* pushPoint or a total, so the totals, every stored point and the axis
\* bounds that are set are finite.
C10_NonFiniteDropped ==
    \A t \in Tips :
       /\ \A i \in 1..Len(evlog[t]) :
             evlog[t][i].outcome = "emitted" => FinitePoint(evlog[t][i].point)
       /\ IsFinite(totalCurationRew[t])
       /\ IsFinite(contributedValue[t])
       /\ \A i \in 1..Len(scatter[t].rawPoints) : FinitePoint(scatter[t].rawPoints[i])
       /\ IsFinite(scatter[t].xMin)
       /\ IsFinite(scatter[t].xMax)
       /\ scatter[t].yMax.k # "undef" => IsFinite(scatter[t].yMax)

(***************************************************************************)
(* Properties of the chart                                                 *)
(***************************************************************************)
\* the chart before the i-th call of the history
ChartBefore(i) == IF i = 1 THEN NewScatter ELSE chartLog[i - 1].after
ChartAfter(i) == chartLog[i].after

\* the i-th call is a pushPoint that appended its point
Accepted(i) ==
    /\ chartLog[i].op = "pushPoint"
    /\ Len(ChartAfter(i).rawPoints) = Len(ChartBefore(i).rawPoints) + 1

\* the y the point of the i-th call was plotted at
PlottedY(i) == ChartAfter(i).data[Len(ChartAfter(i).data)].y

\* the i-th call is a pushPoint whose point was plotted at a finite y
FinitePush(i) == Accepted(i) /\ IsFinite(PlottedY(i))

\* ceil(y + 5) for a whole y
PaddedCeil(y) == Int2Num(y.n + 5)

\* the ys of the plotted points, in order
YsOf(data) == [i \in 1..Len(data) |-> data[i].y]

\* C11: over pushPoint calls that follow one another and plot finite
\* y-values, yMax never decreases, and after each call it is at least
\* ceil(y + 5) of every point appended in the sequence so far.
C11_YMaxMonotone ==
    \A i \in 1..Len(chartLog) : \A j \in 1..i :
       (\A k \in j..i : FinitePush(k)) =>
          /\ Leq(PaddedCeil(PlottedY(j)), ChartAfter(i).yMax)
          /\ Leq(ChartAfter(j).yMax, ChartAfter(i).yMax)
          /\ IsFinite(ChartBefore(j).yMax) =>
                Leq(ChartBefore(j).yMax, ChartAfter(i).yMax)

\* C12: two toggleMode calls in succession leave the mode and the y of
\* every plotted point as they were before the first, whether or not the
\* chart is finalized; the stored points are untouched.
C12_ToggleRoundTrip ==
    \A i \in 2..Len(chartLog) :
       (chartLog[i - 1].op = "toggleMode" /\ chartLog[i].op = "toggleMode") =>
          /\ ChartAfter(i).showWeighted = ChartBefore(i - 1).showWeighted
          /\ YsOf(ChartAfter(i).data) = YsOf(ChartBefore(i - 1).data)
          /\ ChartAfter(i).data = ChartBefore(i - 1).data
          /\ ChartAfter(i).rawPoints = ChartBefore(i - 1).rawPoints
          /\ ChartAfter(i).finalized = ChartBefore(i - 1).finalized

\* a finalized chart with points was toggled twice, and the ys in between
\* were others than the ys before and after
C12_Witness ==
    \E i \in 2..Len(chartLog) :
       /\ chartLog[i - 1].op = "toggleMode"
       /\ chartLog[i].op = "toggleMode"
       /\ ChartAfter(i).finalized
       /\ Len(ChartAfter(i).data) >= 2
       /\ YsOf(ChartAfter(i - 1).data) # YsOf(ChartAfter(i).data)
       /\ ChartAfter(i - 1).showWeighted

\* ceil(max(finite ys, yBaselineMin) + 5) of a chart, unset without a point
ExpectedYMax(s) ==
    IF s.rawPoints = <<>> THEN Undefined
    ELSE MathCeil(Add(MaxOf(FiniteYs(s.data), s.yBaselineMin), Int2Num(5)))

\* C13: after toggleMode yMax is ceil(max(finite plotted ys, yBaselineMin) + 5)
\* when a point is stored and unset when none is, finalized or not.
C13_ToggleYMax ==
    \A i \in 1..Len(chartLog) :
       chartLog[i].op = "toggleMode" => ChartAfter(i).yMax = ExpectedYMax(ChartAfter(i))

\* the value pushPoint's point has in the mode the chart shows
ActiveValue(s, point) == IF s.showWeighted THEN point.weightedEff ELSE point.efficiency

\* C14: a pushPoint whose tsMs is non-finite, or whose value for the mode
\* shown (weightedEff in the weighted view, efficiency otherwise) is
\* non-finite, leaves rawPoints, the plotted points, xMin and yMax unchanged.
C14_NonFinitePushIsNoOp ==
    \A i \in 1..Len(chartLog) :
       (/\ chartLog[i].op = "pushPoint"
        /\ \/ ~IsFinite(chartLog[i].point.tsMs)
           \/ ~IsFinite(ActiveValue(ChartBefore(i), chartLog[i].point))) =>
          /\ ChartAfter(i).rawPoints = ChartBefore(i).rawPoints
          /\ ChartAfter(i).data = ChartBefore(i).data
          /\ ChartAfter(i).xMin = ChartBefore(i).xMin
          /\ ChartAfter(i).yMax = ChartBefore(i).yMax

\* C15: a pushPoint that appends a point whose tsMs is below the x-axis
\* minimum lowers the minimum to the point's tsMs or below.
C15_XMinLowered ==
    \A i \in 1..Len(chartLog) :
       (Accepted(i) /\ Lt(chartLog[i].point.tsMs, ChartBefore(i).xMin)) =>
          Leq(ChartAfter(i).xMin, chartLog[i].point.tsMs)

\* C16: no call of pushPoint, toggleMode, finalize or addStatsLines raises
\* xMin, and xMin changes only in a pushPoint whose tsMs is below the window
\* start the chart was created with.
C16_XMinNeverIncreases ==
    \A i \in 1..Len(chartLog) :
       /\ Leq(ChartAfter(i).xMin, ChartBefore(i).xMin)
       /\ ChartAfter(i).xMin # ChartBefore(i).xMin =>
             /\ chartLog[i].op = "pushPoint"
             /\ Lt(chartLog[i].point.tsMs, NewScatter.xMin)

\* all four methods were called, points inside and before the window were
\* appended
C16_Witness ==
    /\ \A op \in {"pushPoint", "toggleMode", "finalize", "addStatsLines"} :
          \E i \in 1..Len(chartLog) : chartLog[i].op = op
    /\ \E i, j \in 1..Len(chartLog) :
          /\ Accepted(i) /\ Lt(chartLog[i].point.tsMs, NewScatter.xMin)
          /\ Accepted(j) /\ Lt(NewScatter.xMin, chartLog[j].point.tsMs)

\* the lines of the given id among the datasets
LinesOf(s, id) == {k \in 1..Len(s.datasets) : s.datasets[k].id = id}

\* exactly one line of the id, drawn at y
OneLineAt(s, id, y) ==
    /\ Cardinality(LinesOf(s, id)) = 1
    /\ \A k \in LinesOf(s, id) : s.datasets[k].y = y

\* C17: after addStatsLines has run on a finalized chart, by itself or at
\* the end of toggleMode, a chart with a finite plotted y has a mean-line at
\* the mean and a median-line at the median of the plotted ys, a mean or
\* median of 0 included; a chart without one has no line.
C17_GuideLines ==
    \A i \in 1..Len(chartLog) :
       (chartLog[i].op \in {"addStatsLines", "toggleMode"} /\ ChartBefore(i).finalized) =>
          IF FiniteYs(ChartAfter(i).data) # <<>>
          THEN /\ OneLineAt(ChartAfter(i), "mean-line", _stats(ChartAfter(i)).mean)
               /\ OneLineAt(ChartAfter(i), "median-line", _stats(ChartAfter(i)).median)
          ELSE /\ LinesOf(ChartAfter(i), "mean-line") = {}
               /\ LinesOf(ChartAfter(i), "median-line") = {}

\* C18: after any calls the chart holds at most one mean-line, at most one
\* median-line and exactly one scatter dataset, the first of the datasets.
C18_NoDuplicateLines ==
    \A t \in Tips :
       /\ Cardinality(LinesOf(scatter[t], "mean-line")) <= 1
       /\ Cardinality(LinesOf(scatter[t], "median-line")) <= 1
       /\ LinesOf(scatter[t], "") = {1}
       /\ Len(scatter[t].datasets) <= 3

\* the guide lines were drawn, drawn again, dropped by a toggle and drawn
\* anew: one of each is there
C18_Witness ==
    /\ Len(chartLog) = 5
    /\ chartLog[3].op = "addStatsLines"
    /\ chartLog[4].op = "addStatsLines"
    /\ chartLog[5].op = "toggleMode"
    /\ Len(ChartAfter(3).datasets) = 3
    /\ Len(ChartAfter(4).datasets) = 3
    /\ Cardinality(LinesOf(scatter[1], "mean-line")) = 1
    /\ Cardinality(LinesOf(scatter[1], "median-line")) = 1
    /\ ChartAfter(5).datasets # ChartAfter(4).datasets

(***************************************************************************)
(* Properties of _stats and of the order of the points                     *)
(***************************************************************************)
\* how many of the values are below v, and how many are v or below
CountLess(ys, v) == Cardinality({i \in 1..Len(ys) : Lt(ys[i], v)})
CountLeq(ys, v) == Cardinality({i \in 1..Len(ys) : Leq(ys[i], v)})

\* the k-th smallest of the values, counted with repetitions
KthSmallest(ys, k) ==
    CHOOSE v \in {ys[i] : i \in 1..Len(ys)} : CountLess(ys, v) < k /\ k <= CountLeq(ys, v)

RECURSIVE SumOfWhole(_)
SumOfWhole(ys) == IF ys = <<>> THEN 0 ELSE Head(ys).n + SumOfWhole(Tail(ys))

\* C19: _stats returns the arithmetic mean of the finite plotted ys and
\* their median, the middle one of the values by size for an odd count and
\* the average of the two middle ones for an even count, whatever the order
\* of the points; 20 for 10, 20, 30 and 25 for 10, 20, 30, 40; null and null
\* without a finite value.
C19_Stats ==
    (chartLog # <<>> /\ chartLog[1].op = "_stats") =>
       LET ys == SelectSeq(YsOf(scatter[1].data), IsFinite)
           n == Len(ys)
           r == chartLog[1].ret
           vals == {ys[i] : i \in 1..n}
       IN IF n = 0
          THEN r.mean = Undefined /\ r.median = Undefined
          ELSE /\ r.mean = Fin(SumOfWhole(ys), n)
               /\ r.median = IF n % 2 = 1
                             THEN KthSmallest(ys, (n + 1) \div 2)
                             ELSE Div(Add(KthSmallest(ys, n \div 2),
                                          KthSmallest(ys, n \div 2 + 1)), Int2Num(2))
               /\ (n = 3 /\ vals = {Int2Num(10), Int2Num(20), Int2Num(30)}) =>
                     r.median = Int2Num(20)
               /\ (n = 4 /\ vals = {Int2Num(10), Int2Num(20), Int2Num(30), Int2Num(40)}) =>
                     r.median = Int2Num(25)

\* the statistics of 40, 10, 30, 20, pushed in this order
C19_Witness ==
    /\ chartLog # <<>>
    /\ chartLog[1].op = "_stats"
    /\ YsOf(scatter[1].data) = <<Int2Num(40), Int2Num(10), Int2Num(30), Int2Num(20)>>
    /\ chartLog[1].ret = [mean |-> Int2Num(25), median |-> Int2Num(25)]

\* pushPoint takes the point: its tsMs and efficiency are finite
AcceptedPoint(p) == IsFinite(p.tsMs) /\ IsFinite(p.efficiency)

\* C20: at every moment of a run the events handled are rows of the table in
\* the order of the table, efficiencyData holds the points of the emitted
\* ones in that order, and the chart's rawPoints and plotted points are the
\* points of efficiencyData that pushPoint took, in the same order, whatever
\* the order of the rows in time.
C20_SourceOrder ==
    \A t \in Tips :
       LET es == EmittedOf(evlog[t])
           log == evlog[t]
           raw == scatter[t].rawPoints
           data == scatter[t].data
       IN /\ \A i \in 1..Len(log) : log[i].reward = rows[t][log[i].row]
          /\ \A i, j \in 1..Len(log) : i < j => log[i].row < log[j].row
          /\ efficiencyData[t] = [i \in 1..Len(es) |-> es[i].point]
          /\ \A i \in 1..Len(es) :
                es[i].point.tsMs = Mul(es[i].reward.time, Int2Num(1000))
          /\ raw = SelectSeq(efficiencyData[t], AcceptedPoint)
          /\ Len(data) = Len(raw)
          /\ \A i \in 1..Len(raw) :
                /\ data[i].x = raw[i].tsMs
                /\ data[i].efficiency = raw[i].efficiency
                /\ data[i].weightedEff = raw[i].weightedEff

\* a run over a table whose second row is older than its first: both points
\* are stored, the later one first
C20_Witness ==
    \E t \in Tips :
       /\ pc[t] = "done"
       /\ Len(scatter[t].rawPoints) = 2
       /\ scatter[t].rawPoints = efficiencyData[t]
       /\ scatter[t].rawPoints[1].tsMs = Int2Num(400000000)
       /\ scatter[t].rawPoints[2].tsMs = Int2Num(1000000)
       /\ scatter[t].data[1].x = Int2Num(400000000)
       /\ scatter[t].data[2].x = Int2Num(1000000)

(***************************************************************************)
(* Properties of the order of a run's steps                                *)
(***************************************************************************)
RECURSIVE LoggedAttempts(_)
LoggedAttempts(log) ==
    IF log = <<>> THEN 0 ELSE Len(Head(log).attempts) + LoggedAttempts(Tail(log))

\* the attempts a run has made: those of the events it is through with,
\* those settled for the event it is at, and the one it awaits
AttemptsMade(t) ==
    LoggedAttempts(evlog[t])
    + (IF pc[t] \in {"try", "await", "process", "threw"} THEN Len(attemptLog[t]) ELSE 0)
    + (IF pc[t] = "await" THEN 1 ELSE 0)

RECURSIVE SumAttempts(_)
SumAttempts(ts) ==
    IF ts = {} THEN 0
    ELSE LET t == CHOOSE x \in ts : TRUE IN AttemptsMade(t) + SumAttempts(ts \ {t})

\* the run is between its start and its end
Running(t) == pc[t] \notin {"idle", "done", "threw"}

\* C21: every getPostCached call but the one a run awaits has settled before
\* the next is made, so at most one attempt is outstanding; an attempt for a
\* row is made only when every row before it has been emitted or skipped;
\* under getTipEfficiency a tip's run has started only if the runs of the
\* tips before it have completed, so at most one run is under way.
C21_Sequential ==
    /\ Len(calls) = SumAttempts(Tips)
    /\ Cardinality({t \in Tips : pc[t] = "await"}) <= 1
    /\ \A t \in Tips :
          pc[t] \in {"try", "await", "process"} => Len(evlog[t]) = idx[t] - 1
    /\ \A i, j \in 1..Len(tips) :
          (i < j /\ pc[tips[j]] # "idle") => pc[tips[i]] = "done"
    /\ Cardinality({t \in Tips : Running(t)}) <= 1

\* the first tip's run is through two events, the second tip's run awaits an
\* attempt for its second event
C21_Witness ==
    /\ tips = <<1, 2>>
    /\ pc[1] = "done"
    /\ Len(evlog[1]) = 2
    /\ evlog[1][2].outcome = "emitted"
    /\ pc[2] = "await"
    /\ idx[2] = 2
    /\ Len(evlog[2]) = 1
    /\ Len(attemptLog[2]) = 3

\* the guide lines that a mean or median other than 0 calls for are drawn
LinesDrawn(s) ==
    /\ Truthy(_stats(s).mean) => OneLineAt(s, "mean-line", _stats(s).mean)
    /\ Truthy(_stats(s).median) => OneLineAt(s, "median-line", _stats(s).median)

\* C22: in a run the chart is finalized exactly when the run has ended, and
\* then every row of the table has been emitted or skipped; the step that
\* finalizes the chart computes the guide lines; once finalized, the chart
\* and efficiencyData get no further point.
C22_StreamComplete ==
    /\ [](\A t \in Tips :
            /\ scatter[t].finalized <=> pc[t] = "done"
            /\ scatter[t].finalized =>
                  /\ Len(evlog[t]) = Len(rows[t])
                  /\ idx[t] = Len(rows[t]) + 1)
    /\ [][\A t \in Tips :
            /\ (~scatter[t].finalized /\ scatter'[t].finalized) =>
                  /\ LinesDrawn(scatter'[t])
                  /\ scatter'[t].rawPoints = scatter[t].rawPoints
            /\ scatter[t].finalized =>
                  /\ scatter'[t] = scatter[t]
                  /\ efficiencyData'[t] = efficiencyData[t]]_vars

\* a run over an emitted event and a skipped one has ended: the chart is
\* finalized and has its guide lines
C22_Witness ==
    \E t \in Tips :
       /\ pc[t] = "done"
       /\ scatter[t].finalized
       /\ Len(evlog[t]) = 2
       /\ evlog[t][1].outcome = "emitted"
       /\ evlog[t][2].outcome \in {"falsy", "unresolved", "rejected"}
       /\ Len(scatter[t].rawPoints) = 1
       /\ Len(scatter[t].datasets) = 3

(***************************************************************************)
(* Properties of the chart under toggles                                   *)
(***************************************************************************)
\* the plotted points are the stored points, one for one, each at its tsMs
\* and at the rounded value of the mode shown
IsProjection(s) ==
    /\ Len(s.data) = Len(s.rawPoints)
    /\ \A k \in 1..Len(s.rawPoints) :
          /\ s.data[k].x = s.rawPoints[k].tsMs
          /\ s.data[k].y = MathRound(IF s.showWeighted THEN s.rawPoints[k].weightedEff
                                     ELSE s.rawPoints[k].efficiency)

\* C23: whatever calls have been made, in whatever order, every call left
\* rawPoints as it was or with the call's point appended, and left the
\* plotted points the projection of rawPoints in the mode shown.
C23_ProjectionConsistent ==
    \A i \in 1..Len(chartLog) :
       /\ \/ ChartAfter(i).rawPoints = ChartBefore(i).rawPoints
          \/ /\ chartLog[i].op = "pushPoint"
             /\ ChartAfter(i).rawPoints = Append(ChartBefore(i).rawPoints, chartLog[i].point)
       /\ IsProjection(ChartAfter(i))

\* points were pushed before, between and after two toggles, and the three
\* stored points are plotted elsewhere in the two modes
C23_Witness ==
    /\ Len(chartLog) = 5
    /\ Accepted(1) /\ chartLog[2].op = "toggleMode"
    /\ Accepted(3) /\ chartLog[4].op = "toggleMode"
    /\ Accepted(5)
    /\ Len(scatter[1].rawPoints) = 3
    /\ \A k \in 1..3 : ChartAfter(5).data[k].y # ChartAfter(3).data[IF k = 3 THEN 1 ELSE k].y

\* C24: toggleMode flips the mode and leaves the finalized flag, rawPoints,
\* xMin and xMax as they were; no call makes a finalized chart unfinalized.
C24_ToggleFrame ==
    \A i \in 1..Len(chartLog) :
       /\ chartLog[i].op = "toggleMode" =>
             /\ ChartAfter(i).showWeighted = ~ChartBefore(i).showWeighted
             /\ ChartAfter(i).finalized = ChartBefore(i).finalized
             /\ ChartAfter(i).rawPoints = ChartBefore(i).rawPoints
             /\ ChartAfter(i).xMin = ChartBefore(i).xMin
             /\ ChartAfter(i).xMax = ChartBefore(i).xMax
       /\ ChartBefore(i).finalized => ChartAfter(i).finalized

\* a chart with a point was toggled while building and again when finalized
C24_Witness ==
    \E i, j \in 1..Len(chartLog) :
       /\ i < j
       /\ chartLog[i].op = "toggleMode" /\ ~ChartAfter(i).finalized
       /\ chartLog[j].op = "toggleMode" /\ ChartAfter(j).finalized
       /\ ChartAfter(i).rawPoints # <<>>
       /\ \E k \in 1..Len(chartLog) : Accepted(k) /\ j < k

\* the guide lines of a chart
GuideLines(s) == LinesOf(s, "mean-line") \cup LinesOf(s, "median-line")

\* every guide line of the chart is at the mean or median of its plotted ys
LinesFresh(s) ==
    /\ \A k \in LinesOf(s, "mean-line") : s.datasets[k].y = _stats(s).mean
    /\ \A k \in LinesOf(s, "median-line") : s.datasets[k].y = _stats(s).median

\* C25: a chart that is not finalized has no mean-line and no median-line;
\* after toggleMode the chart has guide lines only if it is finalized, and
\* those it has are at the mean and the median of the y-values of the new
\* mode.
C25_LinesOnlyWhenFinalized ==
    \A i \in 1..Len(chartLog) :
       /\ ~ChartAfter(i).finalized => GuideLines(ChartAfter(i)) = {}
       /\ chartLog[i].op = "toggleMode" => LinesFresh(ChartAfter(i))

\* guide lines drawn for one mode were replaced by a toggle with those of
\* the other; a toggle of a chart not finalized drew none
C25_Witness ==
    \E i, j \in 1..Len(chartLog) :
       /\ i < j
       /\ chartLog[i].op = "toggleMode"
       /\ ~ChartAfter(i).finalized /\ ChartAfter(i).rawPoints # <<>>
       /\ chartLog[j].op = "toggleMode"
       /\ Cardinality(GuideLines(ChartBefore(j))) = 2
       /\ Cardinality(GuideLines(ChartAfter(j))) = 2
       /\ ChartBefore(j).datasets # ChartAfter(j).datasets

(***************************************************************************)
(* Properties of the events a run passes over                              *)
(***************************************************************************)
\* x is a number that is 0 or less
NotPositive(x) == x.k = "ninf" \/ (x.k = "fin" /\ x.n <= 0)

\* the first of a post's two fields that is given, 0 if neither is
GivenOr0(a, b) == IF a.k # "undef" THEN a ELSE IF b.k # "undef" THEN b ELSE Int2Num(0)

\* one of the conditions under which an event is to be rejected holds of the
\* row, the resolved post and the vote
RejectCase(reward, hp, v) ==
    \/ NotPositive(GivenOr0(hp.total_vests, hp.totalVests))
    \/ NotPositive(GivenOr0(hp.total_rshares, hp.totalRshares))
    \/ NotPositive(v.rshares)
    \/ reward.vests.k \in {"undef", "str", "nan"}
    \/ NotPositive(reward.vests)
    \/ /\ v.rshares.k = "fin"
       /\ GivenOr0(hp.total_rshares, hp.totalRshares).k = "fin"
       /\ (v.rshares.n < 0) # (GivenOr0(hp.total_rshares, hp.totalRshares).n < 0)

\* C26: the step that handles a resolved event of which one of the reject
\* conditions holds emits no point and leaves contributedValue,
\* totalCurationRew and the count as they were; the run goes on with the
\* next row.
C26_RejectedLeavesTotals ==
    [][\A t \in Tips :
          (/\ pc[t] = "process"
           /\ pc'[t] # "process"
           /\ histPost[t] # NoPost
           /\ RejectCase(rows[t][idx[t]], histPost[t], vote[t]))
          => /\ efficiencyData'[t] = efficiencyData[t]
             /\ scatter'[t] = scatter[t]
             /\ contributedValue'[t] = contributedValue[t]
             /\ totalCurationRew'[t] = totalCurationRew[t]
             /\ metrics'[t].totalRewards = metrics[t].totalRewards
             /\ pc'[t] = "loop"
             /\ idx'[t] = idx[t] + 1]_vars

\* a run has rejected an event whose post has total vests 0 and an event
\* whose vest amount is not a number, and has emitted nothing
C26_Witness ==
    \E t \in Tips :
       /\ pc[t] = "done"
       /\ Len(evlog[t]) = 2
       /\ evlog[t][1].outcome = "rejected"
       /\ evlog[t][1].post.total_vests = Int2Num(0)
       /\ evlog[t][1].reward.vests = Int2Num(5)
       /\ evlog[t][2].outcome = "rejected"
       /\ evlog[t][2].reward.vests = NonNumeric
       /\ evlog[t][2].post.total_vests = Int2Num(100)
       /\ efficiencyData[t] = <<>>
       /\ scatter[t].rawPoints = <<>>
       /\ contributedValue[t] = Int2Num(0)
       /\ totalCurationRew[t] = Int2Num(0)

\* the row's time is 0 or missing
TimeMissing(reward) == reward.time \in {Int2Num(0), Undefined}

\* the calls made for a key
CallsFor(key) == {i \in 1..Len(calls) : calls[i].key = key}

\* C27: the step of the loop at a row whose time is 0 or missing calls
\* getPostCached for nothing, leaves the cache, the points, the totals and
\* the counters as they were and goes on with the next row; a post named
\* only by such rows is never called for and has no cache entry.
C27_FalsyTimeSkipped ==
    /\ [](/\ postCache[keyFor("bob", "p2")] = 0
          /\ CallsFor(keyFor("bob", "p2")) = {})
    /\ [][\A t \in Tips :
            (/\ pc[t] = "loop"
             /\ idx[t] <= Len(rows[t])
             /\ TimeMissing(rows[t][idx[t]]))
            => /\ calls' = calls
               /\ postCache' = postCache
               /\ promises' = promises
               /\ efficiencyData' = efficiencyData
               /\ scatter' = scatter
               /\ contributedValue' = contributedValue
               /\ totalCurationRew' = totalCurationRew
               /\ totAuthor' = totAuthor
               /\ metrics' = metrics
               /\ pc'[t] = "loop"
               /\ idx'[t] = idx[t] + 1]_vars

\* two runs have each passed over one row with a falsy time, 0 in one and
\* missing in the other, and have emitted the point of their other row
C27_Witness ==
    /\ pc[1] = "done" /\ pc[2] = "done"
    /\ Len(evlog[1]) = 2 /\ Len(evlog[2]) = 2
    /\ evlog[1][1].outcome = "falsy" /\ evlog[1][1].reward.time = Int2Num(0)
    /\ evlog[1][2].outcome = "emitted"
    /\ evlog[2][1].outcome = "emitted"
    /\ evlog[2][2].outcome = "falsy" /\ evlog[2][2].reward.time = Undefined
    /\ Len(efficiencyData[1]) = 1 /\ Len(efficiencyData[2]) = 1
    /\ Len(calls) = 2 * MaxAttempts
    /\ postCache[keyFor("bob", "p2")] = 0

\* C28: when an attempt has failed with a 503 and attempts are left, the
\* run is not at once at its next attempt: a delay comes first.
C28_DelayBeforeRetry ==
    [][\A t \in Tips :
          (/\ pc[t] = "await"
           /\ pc'[t] # "await"
           /\ promises[awaiting[t]].state = "rejected"
           /\ Is503(promises[awaiting[t]].err)
           /\ attempt[t] + 1 < MaxAttempts)
          => pc'[t] # "try"]_vars

(***************************************************************************)
(* Properties of the fetch window                                          *)
(***************************************************************************)
\* s is the second the millisecond ms lies in
SecondOf(s, ms) == 1000 * s <= ms /\ ms < 1000 * s + 1000

\* C29: the request a run sends names the tip's voter and the window from
\* lower to upper, with upper the second of created - 1 day, lower the
\* second of created - 1 day - days * 1 day, lower <= upper and
\* upper - lower = days * 86400.
C29_FetchWindow ==
    \A t \in Tips :
       request[t].sent =>
          /\ Len(request[t].url) = 4
          /\ request[t].url[1] = "curation_reward"
          /\ request[t].url[2] = t
          /\ LET lower == request[t].url[3]
                 upper == request[t].url[4]
             IN /\ SecondOf(upper, request[t].created - 24 * 60 * 60 * 1000)
                /\ SecondOf(lower, request[t].created - 24 * 60 * 60 * 1000
                                                      - request[t].days * 24 * 60 * 60 * 1000)
                /\ lower <= upper
                /\ upper - lower = request[t].days * 86400

\* the request of a post created just before a second's start before the
\* epoch, with a window of several days
C29_Witness ==
    /\ request[1].sent
    /\ request[1].created = -1001
    /\ request[1].days = 3
    /\ request[1].url = <<"curation_reward", 1, -345602, -86402>>

(***************************************************************************)
(* Properties of the same-author counter                                   *)
(***************************************************************************)
\* C30: totAuthor is the number of emitted points whose sameAuthor is true,
\* and so never more than the count of points.
C30_TotAuthorCountsEmitted ==
    \A t \in Tips :
       /\ totAuthor[t] =
             Cardinality({i \in 1..Len(efficiencyData[t]) : efficiencyData[t][i].sameAuthor})
       /\ totAuthor[t] <= Len(efficiencyData[t])

(***************************************************************************)
(* Properties of the retry loop                                            *)
(***************************************************************************)
\* the run resolved the event's post
Resolved(e) == e.outcome \in {"emitted", "rejected"}

\* the cache key of a row
KeyOfRow(reward) == keyFor(reward.author, reward.permlink)

\* C31: every event a run is through with and whose time is truthy had
\* exactly 5 attempts, each a success or a 503, also when the first
\* succeeded; it is resolved if and only if one of them succeeded, and then
\* with the post that attempt gave; every attempt is a getPostCached call.
C31_NoEarlyExit ==
    /\ Len(calls) = SumAttempts(Tips)
    /\ \A t \in Tips : \A i \in 1..Len(evlog[t]) :
          LET e == evlog[t][i]
          IN e.outcome # "falsy" =>
                /\ Len(e.attempts) = 5
                /\ \A k \in 1..Len(e.attempts) : e.attempts[k] \in {"ok", "503"}
                /\ Resolved(e) <=> (\E k \in 1..Len(e.attempts) : e.attempts[k] = "ok")
                /\ Resolved(e) => e.post = promises[postCache[KeyOfRow(e.reward)]].value
                /\ ~Resolved(e) => e.post = NoPost

\* a run is through an event whose first attempt succeeded and an event
\* whose attempts all failed with a 503: ten calls were made
C31_Witness ==
    \E t \in Tips :
       /\ Len(evlog[t]) = 2
       /\ evlog[t][1].attempts = <<"ok", "ok", "ok", "ok", "ok">>
       /\ evlog[t][1].outcome = "emitted"
       /\ evlog[t][2].attempts = <<"503", "503", "503", "503", "503">>
       /\ evlog[t][2].outcome = "unresolved"
       /\ Len(calls) = 10

\* the promise the cache holds under the key has rejected
KeyFailed(key) == postCache[key] # 0 /\ promises[postCache[key]].state = "rejected"

\* n attempts that all failed in the same way
FailedAlike(attempts, n) ==
    /\ Len(attempts) = n
    /\ \A k \in 1..Len(attempts) : attempts[k] = attempts[1] /\ attempts[k] # "ok"

\* C32: of a key whose resolution has failed, every event of every run
\* sharing the cache has 5 attempts that fail alike and is skipped: a run
\* leaves the retry loop of such an event only after those 5 attempts, and
\* no event of the key is resolved.
C32_NoRecovery ==
    \A t \in Tips :
       /\ \A i \in 1..Len(evlog[t]) :
             LET e == evlog[t][i]
             IN (e.outcome # "falsy" /\ KeyFailed(KeyOfRow(e.reward))) =>
                   e.outcome = "unresolved" /\ FailedAlike(e.attempts, 5)
       /\ (/\ pc[t] \in {"process", "threw"}
           /\ KeyFailed(KeyOfRow(rows[t][idx[t]])))
          => /\ FailedAlike(attemptLog[t], 5)
             /\ pc[t] = "process"
             /\ histPost[t] = NoPost

\* the part of it that holds: no event of a failed key is ever resolved, and
\* the events of it a run is through with had 5 attempts that failed alike
C32_FailedKeyGivesNoPoint ==
    \A t \in Tips :
       /\ \A i \in 1..Len(evlog[t]) :
             LET e == evlog[t][i]
             IN (e.outcome # "falsy" /\ KeyFailed(KeyOfRow(e.reward))) =>
                   e.outcome = "unresolved" /\ FailedAlike(e.attempts, 5)
       /\ (/\ pc[t] \in {"process", "threw"}
           /\ KeyFailed(KeyOfRow(rows[t][idx[t]])))
          => histPost[t] = NoPost

(***************************************************************************)
(* Properties of the chart's y axis                                        *)
(***************************************************************************)
\* C33: on a finalized chart a call of addStatsLines that follows another
\* with no call between them leaves yMax and the guide lines as the first
\* left them.
C33_AddStatsLinesIdempotent ==
    \A i \in 2..Len(chartLog) :
       (/\ chartLog[i].op = "addStatsLines"
        /\ chartLog[i - 1].op = "addStatsLines"
        /\ ChartBefore(i).finalized)
       => /\ ChartAfter(i).yMax = ChartBefore(i).yMax
          /\ ChartAfter(i).datasets = ChartBefore(i).datasets

\* the chart shows all it holds: yMax is set and no finite plotted y and no
\* guide line lies above it
AllVisible(s) ==
    (\E k \in 1..Len(s.data) : IsFinite(s.data[k].y)) =>
       /\ IsFinite(s.yMax)
       /\ \A k \in 1..Len(s.data) : IsFinite(s.data[k].y) => Leq(s.data[k].y, s.yMax)
       /\ \A k \in GuideLines(s) : Leq(s.datasets[k].y, s.yMax)

\* C34: after every sequence of pushPoint, toggleMode, finalize and
\* addStatsLines, a chart with a finite plotted y has yMax set, at or above
\* every finite plotted y and the y of every guide line present.
C34_Visibility ==
    /\ AllVisible(scatter[1])
    /\ \A i \in 1..Len(chartLog) : AllVisible(ChartAfter(i))

(***************************************************************************)
(* Termination of a run                                                    *)
(***************************************************************************)
\* C35: when the window fetch and every getPostCached call settle, the run
\* over a table of n events makes at most 5n getPostCached calls and comes
\* to its end with the chart finalized, whatever the attempts give.
C35_Terminates ==
    /\ [](Len(calls) <= 5 * Len(source[1]))
    /\ <>(pc[1] = "done" /\ scatter[1].finalized)

\* the part of it that holds: the run makes at most 5n calls and comes to an
\* end, finalized or rejected
C35_Ends ==
    /\ [](Len(calls) <= 5 * Len(source[1]))
    /\ <>[](\/ pc[1] = "done" /\ scatter[1].finalized
            \/ pc[1] = "threw" /\ ~scatter[1].finalized)

(***************************************************************************)
(* Properties of the hover handlers                                        *)
(***************************************************************************)
\* the rows whose tooltip is visible after the first n calls of the log
RECURSIVE VisibleAfter(_)
VisibleAfter(n) ==
    IF n = 0 THEN {}
    ELSE IF hoverLog[n].call = "show"
         THEN VisibleAfter(n - 1) \cup {hoverLog[n].li}
         ELSE VisibleAfter(n - 1) \ {hoverLog[n].li}

\* C36: after any mouseover and mouseout events at most one tooltip is
\* visible and it is that of currentLi; so it was after every single call of
\* show() and hide(), and a mouseover that goes from one row to another
\* hides the tooltip of the first before it shows that of the second.
C36_OneTooltip ==
    /\ {t \in Tips : tipVisible[t]} = (IF currentLi = 0 THEN {} ELSE {currentLi})
    /\ VisibleAfter(Len(hoverLog)) = {t \in Tips : tipVisible[t]}
    /\ \A n \in 0..Len(hoverLog) : Cardinality(VisibleAfter(n)) <= 1
    /\ \A n \in 1..Len(hoverLog) :
          hoverLog[n].call = "show" => VisibleAfter(n - 1) = {}

\* the pointer went onto row 1, from row 1 directly onto row 2, and then
\* left the list: the mouseover onto row 2 hid tooltip 1 and showed tooltip 2
C36_Witness ==
    /\ hoverLog = << [ev |-> "mouseover", call |-> "show", li |-> 1],
                     [ev |-> "mouseover", call |-> "hide", li |-> 1],
                     [ev |-> "mouseover", call |-> "show", li |-> 2],
                     [ev |-> "mouseout", call |-> "hide", li |-> 2] >>
    /\ currentLi = 0
    /\ \A t \in Tips : ~tipVisible[t]

====
